---------------------------- MODULE Spec2Model ----------------------------
(***************************************************************************)
(* A model of the Rubik's cube core of the repository: RubiksCube          *)
(* (src/cube_model.py) and RubiksCubeSolver (src/cube_solver.py).          *)
(*                                                                         *)
(* A cube's `faces` dictionary is a function from the six face names to    *)
(* 3x3 grids; a grid is a function [0..2 -> [0..2 -> colour]], indexed     *)
(* [row][col] with the indices of the Python code.  Move symbols, colour   *)
(* strings handed to the external solver and the tokens of a solution are  *)
(* sequences of one-character strings, so that endswith, slicing and       *)
(* split are computed rather than assumed.                                 *)
(***************************************************************************)
EXTENDS Integers, Sequences, FiniteSets, TLC

VARIABLES
    faces,      \* the caller's RubiksCube: its self.faces
    solver,     \* the RubiksCubeSolver object (cube, solution), or NoSolver
    last,       \* the last call made, its arguments and what it returned
    prev,       \* the facelets of the cube the last call was made on, just before it
    budget,     \* calls the caller may still make on its cube in this behaviour
    heap,       \* the list objects behind the cubes, where HeapSpec tracks them
    session     \* the capture session of app.py: camera and current_cube_state

vars == <<faces, solver, last, prev, budget, heap, session>>

---------------------------------------------------------------------------
(* Bounds of the model *)

\* calls made on the caller's cube in one behaviour of CubeSpec (the cube alone)
MaxCubeCalls == 2

\* calls made on the caller's cube in one behaviour of Spec (the cube and a solver)
MaxCalls == 1

\* calls made on the cube in one behaviour of EditSpec (faces assigned by hand)
MaxEdits == 2

\* apply_move calls made on the cube in one behaviour of MoveSpec (moves alone)
MaxMoves == 3

---------------------------------------------------------------------------
(* Data model: cube_model.py *)

Idx == 0..2

FaceNames == {"up", "down", "front", "back", "right", "left"}

\* the six colour codes of color_map, and one code outside it
CubeColours == {"W", "Y", "R", "O", "B", "G"}
Colour == CubeColours \cup {"X"}

Uniform(col) == [i \in Idx |-> [j \in Idx |-> col]]

\* __init__ with the left face given the colour of the right face
NewCube_LeftBlue ==
    [f \in FaceNames |->
        CASE f = "up"    -> Uniform("W")
          [] f = "down"  -> Uniform("Y")
          [] f = "front" -> Uniform("R")
          [] f = "back"  -> Uniform("O")
          [] f = "right" -> Uniform("B")
          [] f = "left"  -> Uniform("B")]

\* RubiksCube.__init__: the solved cube
NewCube ==
    [f \in FaceNames |->
        CASE f = "up"    -> Uniform("W")
          [] f = "down"  -> Uniform("Y")
          [] f = "front" -> Uniform("R")
          [] f = "back"  -> Uniform("O")
          [] f = "right" -> Uniform("B")
          [] f = "left"  -> Uniform("G")]

\* strip helpers: a strip is a function [0..2 -> colour]
Row(c, f, i) == c[f][i]
Col(c, f, j) == [i \in Idx |-> c[f][i][j]]
Rev(v) == [i \in Idx |-> v[2 - i]]
SetRow(c, f, i, v) == [c EXCEPT ![f][i] = v]
SetCol(c, f, j, v) == [c EXCEPT ![f] = [i \in Idx |-> [c[f][i] EXCEPT ![j] = v[i]]]]

\* _rotate_face that transposes the grid in both directions
RotateFace_Transpose(c, face_name, clockwise) ==
    LET face == c[face_name]
    IN  [c EXCEPT ![face_name] = [i \in Idx |-> [j \in Idx |-> face[j][i]]]]

\* RubiksCube._rotate_face
RotateFace(c, face_name, clockwise) ==
    LET face == c[face_name]
    IN  IF clockwise
        THEN [c EXCEPT ![face_name] = [i \in Idx |-> [j \in Idx |-> face[2 - j][i]]]]
        ELSE [c EXCEPT ![face_name] = [i \in Idx |-> [j \in Idx |-> face[j][2 - i]]]]

\* _rotate_up cycling row 1 of the side faces instead of row 0
RotateUp_MiddleRow(c, clockwise) ==
    LET c0 == RotateFace(c, "up", clockwise)
        temp == Row(c0, "front", 1)
    IN  IF clockwise
        THEN LET c1 == SetRow(c0, "front", 1, Row(c0, "right", 1))
                 c2 == SetRow(c1, "right", 1, Row(c1, "back", 1))
                 c3 == SetRow(c2, "back", 1, Row(c2, "left", 1))
             IN  SetRow(c3, "left", 1, temp)
        ELSE LET c1 == SetRow(c0, "front", 1, Row(c0, "left", 1))
                 c2 == SetRow(c1, "left", 1, Row(c1, "back", 1))
                 c3 == SetRow(c2, "back", 1, Row(c2, "right", 1))
             IN  SetRow(c3, "right", 1, temp)

\* RubiksCube._rotate_up
RotateUp(c, clockwise) ==
    LET c0 == RotateFace(c, "up", clockwise)
        temp == Row(c0, "front", 0)
    IN  IF clockwise
        THEN LET c1 == SetRow(c0, "front", 0, Row(c0, "right", 0))
                 c2 == SetRow(c1, "right", 0, Row(c1, "back", 0))
                 c3 == SetRow(c2, "back", 0, Row(c2, "left", 0))
             IN  SetRow(c3, "left", 0, temp)
        ELSE LET c1 == SetRow(c0, "front", 0, Row(c0, "left", 0))
                 c2 == SetRow(c1, "left", 0, Row(c1, "back", 0))
                 c3 == SetRow(c2, "back", 0, Row(c2, "right", 0))
             IN  SetRow(c3, "right", 0, temp)

\* _rotate_down cycling row 1 of the side faces instead of row 2
RotateDown_MiddleRow(c, clockwise) ==
    LET c0 == RotateFace(c, "down", clockwise)
        temp == Row(c0, "front", 1)
    IN  IF clockwise
        THEN LET c1 == SetRow(c0, "front", 1, Row(c0, "left", 1))
                 c2 == SetRow(c1, "left", 1, Row(c1, "back", 1))
                 c3 == SetRow(c2, "back", 1, Row(c2, "right", 1))
             IN  SetRow(c3, "right", 1, temp)
        ELSE LET c1 == SetRow(c0, "front", 1, Row(c0, "right", 1))
                 c2 == SetRow(c1, "right", 1, Row(c1, "back", 1))
                 c3 == SetRow(c2, "back", 1, Row(c2, "left", 1))
             IN  SetRow(c3, "left", 1, temp)

\* RubiksCube._rotate_down
RotateDown(c, clockwise) ==
    LET c0 == RotateFace(c, "down", clockwise)
        temp == Row(c0, "front", 2)
    IN  IF clockwise
        THEN LET c1 == SetRow(c0, "front", 2, Row(c0, "left", 2))
                 c2 == SetRow(c1, "left", 2, Row(c1, "back", 2))
                 c3 == SetRow(c2, "back", 2, Row(c2, "right", 2))
             IN  SetRow(c3, "right", 2, temp)
        ELSE LET c1 == SetRow(c0, "front", 2, Row(c0, "right", 2))
                 c2 == SetRow(c1, "right", 2, Row(c1, "back", 2))
                 c3 == SetRow(c2, "back", 2, Row(c2, "left", 2))
             IN  SetRow(c3, "left", 2, temp)

\* one iteration of the clockwise loop of _rotate_right
RightCwStep(c, temp, i) ==
    LET c1 == [c  EXCEPT !["front"][i][2] = c["down"][i][2]]
        c2 == [c1 EXCEPT !["down"][i][2] = c1["back"][2 - i][0]]
        c3 == [c2 EXCEPT !["back"][2 - i][0] = c2["up"][i][2]]
    IN  [c3 EXCEPT !["up"][i][2] = temp[i]]

\* the counter-clockwise loop body of _rotate_right taking the back face at
\* column 2, the column _rotate_left uses
RightCcwStep_BackColumn2(c, temp, i) ==
    LET c1 == [c  EXCEPT !["front"][i][2] = c["up"][i][2]]
        c2 == [c1 EXCEPT !["up"][i][2] = c1["back"][2 - i][2]]
        c3 == [c2 EXCEPT !["back"][2 - i][2] = c2["down"][i][2]]
    IN  [c3 EXCEPT !["down"][i][2] = temp[i]]

\* one iteration of the counter-clockwise loop of _rotate_right
RightCcwStep(c, temp, i) ==
    LET c1 == [c  EXCEPT !["front"][i][2] = c["up"][i][2]]
        c2 == [c1 EXCEPT !["up"][i][2] = c1["back"][2 - i][0]]
        c3 == [c2 EXCEPT !["back"][2 - i][0] = c2["down"][i][2]]
    IN  [c3 EXCEPT !["down"][i][2] = temp[i]]

\* RubiksCube._rotate_right; the loop for i in range(3) runs its body for
\* i = 0, 1, 2 in order
RotateRight(c, clockwise) ==
    LET c0 == RotateFace(c, "right", clockwise)
        temp == Col(c0, "front", 2)
    IN  IF clockwise
        THEN RightCwStep(RightCwStep(RightCwStep(c0, temp, 0), temp, 1), temp, 2)
        ELSE RightCcwStep(RightCcwStep(RightCcwStep(c0, temp, 0), temp, 1), temp, 2)

\* the clockwise loop body of _rotate_left taking the back face at column 0,
\* the column _rotate_right uses
LeftCwStep_BackColumn0(c, temp, i) ==
    LET c1 == [c  EXCEPT !["front"][i][0] = c["up"][i][0]]
        c2 == [c1 EXCEPT !["up"][i][0] = c1["back"][2 - i][0]]
        c3 == [c2 EXCEPT !["back"][2 - i][0] = c2["down"][i][0]]
    IN  [c3 EXCEPT !["down"][i][0] = temp[i]]

\* one iteration of the clockwise loop of _rotate_left
LeftCwStep(c, temp, i) ==
    LET c1 == [c  EXCEPT !["front"][i][0] = c["up"][i][0]]
        c2 == [c1 EXCEPT !["up"][i][0] = c1["back"][2 - i][2]]
        c3 == [c2 EXCEPT !["back"][2 - i][2] = c2["down"][i][0]]
    IN  [c3 EXCEPT !["down"][i][0] = temp[i]]

\* one iteration of the counter-clockwise loop of _rotate_left
LeftCcwStep(c, temp, i) ==
    LET c1 == [c  EXCEPT !["front"][i][0] = c["down"][i][0]]
        c2 == [c1 EXCEPT !["down"][i][0] = c1["back"][2 - i][2]]
        c3 == [c2 EXCEPT !["back"][2 - i][2] = c2["up"][i][0]]
    IN  [c3 EXCEPT !["up"][i][0] = temp[i]]

\* RubiksCube._rotate_left; the loop for i in range(3) runs its body for
\* i = 0, 1, 2 in order
RotateLeft(c, clockwise) ==
    LET c0 == RotateFace(c, "left", clockwise)
        temp == Col(c0, "front", 0)
    IN  IF clockwise
        THEN LeftCwStep(LeftCwStep(LeftCwStep(c0, temp, 0), temp, 1), temp, 2)
        ELSE LeftCcwStep(LeftCcwStep(LeftCcwStep(c0, temp, 0), temp, 1), temp, 2)

\* _rotate_front without the saved copy of up row 2: the last assignment
\* reads the row after it has been overwritten
RotateFront_NoTemp(c, clockwise) ==
    LET c0 == RotateFace(c, "front", clockwise)
    IN  IF clockwise
        THEN LET c1 == SetRow(c0, "up", 2, Rev(Col(c0, "left", 2)))
                 c2 == SetCol(c1, "left", 2, Row(c1, "down", 0))
                 c3 == SetRow(c2, "down", 0, Rev(Col(c2, "right", 0)))
             IN  SetCol(c3, "right", 0, Row(c3, "up", 2))
        ELSE LET c1 == SetRow(c0, "up", 2, Col(c0, "right", 0))
                 c2 == SetCol(c1, "right", 0, Rev(Row(c1, "down", 0)))
                 c3 == SetRow(c2, "down", 0, Col(c2, "left", 2))
             IN  SetCol(c3, "left", 2, Rev(Row(c3, "up", 2)))

\* RubiksCube._rotate_front
RotateFront(c, clockwise) ==
    LET c0 == RotateFace(c, "front", clockwise)
        temp == Row(c0, "up", 2)
    IN  IF clockwise
        THEN LET c1 == SetRow(c0, "up", 2, Rev(Col(c0, "left", 2)))
                 c2 == SetCol(c1, "left", 2, Row(c1, "down", 0))
                 c3 == SetRow(c2, "down", 0, Rev(Col(c2, "right", 0)))
             IN  SetCol(c3, "right", 0, temp)
        ELSE LET c1 == SetRow(c0, "up", 2, Col(c0, "right", 0))
                 c2 == SetCol(c1, "right", 0, Rev(Row(c1, "down", 0)))
                 c3 == SetRow(c2, "down", 0, Col(c2, "left", 2))
             IN  SetCol(c3, "left", 2, Rev(temp))

\* RubiksCube._rotate_back
RotateBack(c, clockwise) ==
    LET c0 == RotateFace(c, "back", clockwise)
        temp == Row(c0, "up", 0)
    IN  IF clockwise
        THEN LET c1 == SetRow(c0, "up", 0, Col(c0, "right", 2))
                 c2 == SetCol(c1, "right", 2, Rev(Row(c1, "down", 2)))
                 c3 == SetRow(c2, "down", 2, Rev(Col(c2, "left", 0)))
             IN  SetCol(c3, "left", 0, Rev(temp))
        ELSE LET c1 == SetRow(c0, "up", 0, Rev(Col(c0, "left", 0)))
                 c2 == SetCol(c1, "left", 0, Row(c1, "down", 2))
                 c3 == SetRow(c2, "down", 2, Rev(Col(c2, "right", 2)))
             IN  SetCol(c3, "right", 2, temp)

---------------------------------------------------------------------------
(* Move symbols *)

BaseLetters == {"U", "D", "L", "R", "F", "B"}

\* the 18-symbol alphabet, each symbol a sequence of characters
BaseMoves  == {<<x>> : x \in BaseLetters}
PrimeMoves == {<<x, "'">> : x \in BaseLetters}
DoubleMoves == {<<x, "2">> : x \in BaseLetters}
Moves == BaseMoves \cup PrimeMoves \cup DoubleMoves

\* str.endswith(ch) and move[:-1]
EndsWith(s, ch) == Len(s) > 0 /\ s[Len(s)] = ch
ButLast(s) == SubSeq(s, 1, Len(s) - 1)

\* the result of a call that either mutates the cube or raises ValueError
Done(c)   == [raised |-> FALSE, faces |-> c]
Raised(c) == [raised |-> TRUE,  faces |-> c]

\* _apply_base_move whose last branch is a plain else: any other symbol turns
\* the back face
ApplyBaseMove_ElseBack(c, move, clockwise) ==
    CASE move = <<"U">> -> Done(RotateUp(c, clockwise))
      [] move = <<"D">> -> Done(RotateDown(c, clockwise))
      [] move = <<"L">> -> Done(RotateLeft(c, clockwise))
      [] move = <<"R">> -> Done(RotateRight(c, clockwise))
      [] move = <<"F">> -> Done(RotateFront(c, clockwise))
      [] OTHER          -> Done(RotateBack(c, clockwise))

\* RubiksCube._apply_base_move
ApplyBaseMove(c, move, clockwise) ==
    CASE move = <<"U">> -> Done(RotateUp(c, clockwise))
      [] move = <<"D">> -> Done(RotateDown(c, clockwise))
      [] move = <<"L">> -> Done(RotateLeft(c, clockwise))
      [] move = <<"R">> -> Done(RotateRight(c, clockwise))
      [] move = <<"F">> -> Done(RotateFront(c, clockwise))
      [] move = <<"B">> -> Done(RotateBack(c, clockwise))
      [] OTHER          -> Raised(c)

\* apply_move with the double move taken as one quarter turn
ApplyMove_SingleForDouble(c, move) ==
    IF EndsWith(move, "'")
    THEN ApplyBaseMove(c, ButLast(move), FALSE)
    ELSE IF EndsWith(move, "2")
    THEN ApplyBaseMove(c, ButLast(move), TRUE)
    ELSE ApplyBaseMove(c, move, TRUE)

\* RubiksCube.apply_move
ApplyMove(c, move) ==
    IF EndsWith(move, "'")
    THEN ApplyBaseMove(c, ButLast(move), FALSE)
    ELSE IF EndsWith(move, "2")
    THEN LET r1 == ApplyBaseMove(c, ButLast(move), TRUE)
         IN  IF r1.raised THEN r1 ELSE ApplyBaseMove(r1.faces, ButLast(move), TRUE)
    ELSE ApplyBaseMove(c, move, TRUE)

---------------------------------------------------------------------------
(* Face assignment and the solved / valid checks: cube_model.py *)

\* set_face reading the list column by column
SetFace_ColumnMajor(c, face_name, colors) ==
    IF face_name \notin DOMAIN c
    THEN Raised(c)
    ELSE IF Len(colors) = 9
    THEN Done([c EXCEPT ![face_name] =
                  [i \in Idx |-> [j \in Idx |-> colors[3 * j + i + 1]]]])
    ELSE Raised(c)

\* set_face that stores the entries it is given before it rejects the length
SetFace_PartialWrite(c, face_name, colors) ==
    IF face_name \notin DOMAIN c
    THEN Raised(c)
    ELSE LET stored == [c EXCEPT ![face_name] =
                           [i \in Idx |-> [j \in Idx |->
                               IF 3 * i + j + 1 <= Len(colors)
                               THEN colors[3 * i + j + 1]
                               ELSE c[face_name][i][j]]]]
         IN  IF Len(colors) = 9 THEN Done(stored) ELSE Raised(stored)

\* RubiksCube.set_face
SetFace(c, face_name, colors) ==
    IF face_name \notin DOMAIN c
    THEN Raised(c)
    ELSE IF Len(colors) = 9
    THEN Done([c EXCEPT ![face_name] =
                  [i \in Idx |-> [j \in Idx |-> colors[3 * i + j + 1]]]])
    ELSE Raised(c)

\* RubiksCube.get_face_flat
GetFaceFlat(c, face_name) ==
    LET face == c[face_name]
    IN  [k \in 1..9 |-> face[(k - 1) \div 3][(k - 1) % 3]]

\* is_solved that also wants the six centres to differ
IsSolved_DistinctCentres(c) ==
    /\ \A face_name \in DOMAIN c :
           LET center_color == c[face_name][1][1]
           IN  \A i \in Idx : \A j \in Idx : ~(c[face_name][i][j] # center_color)
    /\ Cardinality({c[face_name][1][1] : face_name \in DOMAIN c}) = 6

\* RubiksCube.is_solved
IsSolved(c) ==
    \A face_name \in DOMAIN c :
        LET center_color == c[face_name][1][1]
        IN  \A i \in Idx : \A j \in Idx : ~(c[face_name][i][j] # center_color)

\* color_count[color] as built by the counting loop of is_valid
ColorCount(c, color) ==
    Cardinality({p \in (DOMAIN c) \X Idx \X Idx : c[p[1]][p[2]][p[3]] = color})

\* RubiksCube._validate_pieces
ValidatePieces(c) == TRUE

\* is_valid without the centre comparison: only the colours are counted
IsValid_CountsOnly(c) ==
    IF \E color \in {"W", "Y", "R", "O", "B", "G"} : ColorCount(c, color) # 9
    THEN FALSE
    ELSE ValidatePieces(c)

\* is_valid without the colour count: only the centres are compared
IsValid_CentresOnly(c) ==
    LET centers == {c[face][1][1] : face \in DOMAIN c}
    IN  IF Cardinality(centers) # 6 THEN FALSE ELSE ValidatePieces(c)

\* RubiksCube.is_valid
IsValid(c) ==
    IF \E color \in {"W", "Y", "R", "O", "B", "G"} : ColorCount(c, color) # 9
    THEN FALSE
    ELSE LET centers == {c[face][1][1] : face \in DOMAIN c}
         IN  IF Cardinality(centers) # 6 THEN FALSE ELSE ValidatePieces(c)

\* RubiksCube.copy
Copy(c) == [f \in DOMAIN c |-> [i \in Idx |-> [j \in Idx |-> c[f][i][j]]]]

---------------------------------------------------------------------------
(* The solver: cube_solver.py *)

\* face_order in the order of the cube's own dictionary (get_state_string)
FaceOrder_DictOrder == <<"up", "down", "front", "back", "right", "left">>

\* face_order of _to_kociemba_string and the letters zipped with it
FaceOrder == <<"up", "right", "front", "down", "left", "back">>
Letters   == <<"U", "R", "F", "D", "L", "B">>

\* color_map as the loop over zip(face_order, letters) leaves it: its keys are
\* the centre colours, and a colour at the centre of several faces keeps the
\* letter of the last of them in face_order (a later write overwrites)
ColorMap(c) ==
    LET center_colors == [k \in 1..6 |-> c[FaceOrder[k]][1][1]]
        lastOf(col) == CHOOSE k \in 1..6 :
                          /\ center_colors[k] = col
                          /\ \A k2 \in (k + 1)..6 : center_colors[k2] # col
    IN  [col \in {center_colors[k] : k \in 1..6} |-> Letters[lastOf(col)]]

\* the facelet whose letter is character n (0-based) of the string:
\* for face in face_order: for row in faces[face]: for cell in row
CellAt(c, n) == c[FaceOrder[(n \div 9) + 1]][(n % 9) \div 3][n % 3]

\* RubiksCubeSolver._to_kociemba_string: the 54 characters, or KeyError when a
\* facelet's colour is not a key of color_map
ToKociembaString(c) ==
    LET color_map == ColorMap(c)
    IN  IF \E n \in 0..53 : CellAt(c, n) \notin DOMAIN color_map
        THEN [raised |-> TRUE,  str |-> <<>>]
        ELSE [raised |-> FALSE, str |-> [n \in 1..54 |-> color_map[CellAt(c, n - 1)]]]

\* the slice bound of simple_moves[:25]
SimpleMovesSlice == 25

\* RubiksCubeSolver._generate_simple_solution
GenerateSimpleSolution ==
    LET simple_moves ==
            << <<"F", "2">>, <<"R", "2">>, <<"U", "2">>, <<"B", "2">>, <<"L", "2">>,
               <<"R">>, <<"U">>, <<"R", "'">>, <<"U", "'">>, <<"F">>,
               <<"R">>, <<"U">>, <<"R", "'">>, <<"U", "'">>, <<"F", "'">> >>
        n == IF Len(simple_moves) < SimpleMovesSlice
             THEN Len(simple_moves) ELSE SimpleMovesSlice
    IN  SubSeq(simple_moves, 1, n)

\* the characters str.split() treats as separators, among those the model uses
Whitespace == {" ", "\n"}

\* str.split() scanning s from position i: cur is the token being read,
\* acc the tokens already complete
RECURSIVE SplitFrom(_, _, _, _)
SplitFrom(s, i, cur, acc) ==
    IF i > Len(s)
    THEN IF cur = <<>> THEN acc ELSE Append(acc, cur)
    ELSE IF s[i] \in Whitespace
    THEN SplitFrom(s, i + 1, <<>>, IF cur = <<>> THEN acc ELSE Append(acc, cur))
    ELSE SplitFrom(s, i + 1, Append(cur, s[i]), acc)

\* solution_str.split(" "): every single space separates, empty tokens are kept
RECURSIVE SplitOnSpaceFrom(_, _, _, _)
SplitOnSpaceFrom(s, i, cur, acc) ==
    IF i > Len(s)
    THEN Append(acc, cur)
    ELSE IF s[i] = " "
    THEN SplitOnSpaceFrom(s, i + 1, <<>>, Append(acc, cur))
    ELSE SplitOnSpaceFrom(s, i + 1, Append(cur, s[i]), acc)

Split_OnSpace(s) == SplitOnSpaceFrom(s, 1, <<>>, <<>>)

\* solution_str.split()
Split(s) == SplitFrom(s, 1, <<>>, <<>>)

\* what the collaborator call and the lines after it leave, for the
\* encoding cube_str: the try/except of solve
CallCollaborator(cube_str, collab) ==
    IF collab.raises
    THEN [raised |-> FALSE, solution |-> GenerateSimpleSolution, calls |-> <<cube_str>>]
    ELSE [raised |-> FALSE, solution |-> Split(collab.ret), calls |-> <<cube_str>>]

\* solve without the is_solved() fast path
Solve_NoFastPath(c, collab) ==
    IF ~IsValid(c)
    THEN [raised |-> FALSE, solution |-> <<>>, calls |-> <<>>]
    ELSE LET cube_str == ToKociembaString(c)
         IN  IF cube_str.raised
             THEN [raised |-> TRUE, solution |-> <<>>, calls |-> <<>>]
             ELSE CallCollaborator(cube_str.str, collab)

\* solve without the is_valid() check
Solve_NoValidCheck(c, collab) ==
    IF IsSolved(c)
    THEN [raised |-> FALSE, solution |-> <<>>, calls |-> <<>>]
    ELSE LET cube_str == ToKociembaString(c)
         IN  IF cube_str.raised
             THEN [raised |-> TRUE, solution |-> <<>>, calls |-> <<>>]
             ELSE CallCollaborator(cube_str.str, collab)

\* solve without the try/except around the collaborator call
Solve_NoExcept(c, collab) ==
    IF IsSolved(c)
    THEN [raised |-> FALSE, solution |-> <<>>, calls |-> <<>>]
    ELSE IF ~IsValid(c)
    THEN [raised |-> FALSE, solution |-> <<>>, calls |-> <<>>]
    ELSE LET cube_str == ToKociembaString(c)
         IN  IF cube_str.raised
             THEN [raised |-> TRUE, solution |-> <<>>, calls |-> <<>>]
             ELSE IF collab.raises
             THEN [raised |-> TRUE, solution |-> <<>>, calls |-> <<cube_str.str>>]
             ELSE CallCollaborator(cube_str.str, collab)

\* RubiksCubeSolver.solve on a solver whose snapshot is c, with a collaborator
\* that raises (collab.raises) or returns the string collab.ret.
\*   solution : what self.solution holds when the call ends
\*   raised   : the call ended by an exception instead of returning
\*   calls    : the arguments kociemba.solve was called with, in order
Solve(c, collab) ==
    IF IsSolved(c)
    THEN [raised |-> FALSE, solution |-> <<>>, calls |-> <<>>]
    ELSE IF ~IsValid(c)
    THEN [raised |-> FALSE, solution |-> <<>>, calls |-> <<>>]
    ELSE LET cube_str == ToKociembaString(c)
         IN  IF cube_str.raised
             THEN [raised |-> TRUE, solution |-> <<>>, calls |-> <<>>]
             ELSE CallCollaborator(cube_str.str, collab)

---------------------------------------------------------------------------
(* Inputs of the calls *)

Nine(col) == [k \in 1..9 |-> col]

\* face names handed to set_face: the six faces and a name that is none of them
FaceInputs == FaceNames \cup {"top"}

\* colour lists handed to set_face: a uniform face of a colour already on the
\* cube, a face holding a code outside the six colours, and a list of 3 entries
ColourInputs ==
    { Nine("Y"),
      <<"W", "X", "W", "W", "W", "W", "W", "W", "W">>,
      <<"R", "R", "R">> }

\* colours handed to the loop that paints all six faces
PaintInputs == {"R"}

\* symbols handed to apply_move: the 18-symbol alphabet and symbols outside it
MoveInputs ==
    Moves \cup { <<"X", "2">>, <<"X", "'">>, <<"U", "'", "2">>, <<"U", "2", "'">>, <<>> }

\* what kociemba.solve does when called: it raises, or returns a string
CollabReturns ==
    { <<"R", " ", "U", " ", "R", "'", " ", "U", "'">>,
      <<" ", "R", "2", "\n", " ", "U", " ">>,
      <<>> }
Collabs ==
    {[raises |-> TRUE, ret |-> <<>>]}
        \cup {[raises |-> FALSE, ret |-> s] : s \in CollabReturns}

NoCollab == [raises |-> FALSE, ret |-> <<>>]

---------------------------------------------------------------------------
(* State machine: the calls a caller makes on its cube and on a solver *)

NoSolver == [made |-> FALSE, cube |-> NewCube, solution |-> <<>>]

\* the record of a call: op, whether it raised, its arguments, and for solve
\* the list it returned and the calls it made to kociemba.solve
Call(op, raised, face, colors, move, collab, ret, calls) ==
    [op |-> op, raised |-> raised, face |-> face, colors |-> colors, move |-> move,
     collab |-> collab, ret |-> ret, calls |-> calls]

\* the value of heap where the list objects are not tracked
NoHeap == [dicts |-> <<>>, lists |-> <<>>, rows |-> <<>>, cube |-> 0, copy |-> 0,
           arg |-> 0]

\* a frame that is None, and a camera that read nothing and a detector that
\* saw nothing: the request of a state no capture_face has led to
NoFrame == [none |-> TRUE, tiles |-> <<>>]

NoRequest == [reads |-> <<>>, encodes |-> TRUE]

\* the globals of app.py as the module leaves them: camera = None and
\* current_cube_state = None (none: it is None; else faces is the dict)
NoSession ==
    [camera |-> "None",
     current_cube_state |-> [none |-> TRUE, faces |-> [k \in {} |-> <<>>]],
     request |-> NoRequest]

\* the cube self.cube refers to inside the solver's methods
SelfCube == solver.cube

Init ==
    /\ faces = NewCube
    /\ solver = NoSolver
    /\ last = Call("init", FALSE, "", <<>>, <<>>, NoCollab, <<>>, <<>>)
    /\ prev = NewCube
    /\ budget = MaxCalls
    /\ heap = NoHeap
    /\ session = NoSession

\* cube.set_face(face_name, colors)
SetFaceCall(face_name, colors) ==
    /\ budget > 0
    /\ LET r == SetFace(faces, face_name, colors)
       IN  /\ faces' = r.faces
           /\ last' = Call("set_face", r.raised, face_name, colors, <<>>,
                           NoCollab, <<>>, <<>>)
    /\ prev' = faces
    /\ budget' = budget - 1
    /\ UNCHANGED <<solver, heap, session>>

\* cube.apply_move(move)
ApplyMoveCall(move) ==
    /\ budget > 0
    /\ LET r == ApplyMove(faces, move)
       IN  /\ faces' = r.faces
           /\ last' = Call("apply_move", r.raised, "", <<>>, move,
                           NoCollab, <<>>, <<>>)
    /\ prev' = faces
    /\ budget' = budget - 1
    /\ UNCHANGED <<solver, heap, session>>

\* the loop of test_mixed_color_cube:
\*   for face_name in cube.faces.keys(): cube.set_face(face_name, [col] * 9)
SetAllFaces(c, col) ==
    LET s1 == SetFace(c, "up", Nine(col)).faces
        s2 == SetFace(s1, "down", Nine(col)).faces
        s3 == SetFace(s2, "front", Nine(col)).faces
        s4 == SetFace(s3, "back", Nine(col)).faces
        s5 == SetFace(s4, "right", Nine(col)).faces
    IN  SetFace(s5, "left", Nine(col))

SetAllFacesCall(col) ==
    /\ budget > 0
    /\ LET r == SetAllFaces(faces, col)
       IN  /\ faces' = r.faces
           /\ last' = Call("set_all_faces", r.raised, "", Nine(col), <<>>,
                           NoCollab, <<>>, <<>>)
    /\ prev' = faces
    /\ budget' = budget - 1
    /\ UNCHANGED <<solver, heap, session>>

\* solver = RubiksCubeSolver(cube): RubiksCubeSolver.__init__
NewSolver ==
    /\ solver' = [made |-> TRUE, cube |-> Copy(faces), solution |-> <<>>]
    /\ last' = Call("new_solver", FALSE, "", <<>>, <<>>, NoCollab, <<>>, <<>>)
    /\ prev' = faces
    /\ UNCHANGED <<faces, budget, heap, session>>

\* solve() working on the caller's cube and playing its solution on it
SolveCall_OnCallerCube(collab) ==
    /\ solver.made
    /\ LET r == Solve(faces, collab)
           play[k \in 0..Len(r.solution)] ==
               IF k = 0 THEN faces ELSE ApplyMove(play[k - 1], r.solution[k]).faces
       IN  /\ solver' = [solver EXCEPT !.solution = r.solution]
           /\ faces' = play[Len(r.solution)]
           /\ last' = Call("solve", r.raised, "", <<>>, <<>>, collab,
                           IF r.raised THEN <<>> ELSE r.solution, r.calls)
    /\ prev' = faces
    /\ UNCHANGED <<budget, heap, session>>

\* solve() that plays the solution it found on self.cube before returning
SolveCall_PlaysOnSnapshot(collab) ==
    /\ solver.made
    /\ LET r == Solve(SelfCube, collab)
           play[k \in 0..Len(r.solution)] ==
               IF k = 0 THEN SelfCube ELSE ApplyMove(play[k - 1], r.solution[k]).faces
       IN  /\ solver' = [solver EXCEPT !.solution = r.solution,
                                       !.cube = play[Len(r.solution)]]
           /\ last' = Call("solve", r.raised, "", <<>>, <<>>, collab,
                           IF r.raised THEN <<>> ELSE r.solution, r.calls)
    /\ prev' = faces
    /\ UNCHANGED <<faces, budget, heap, session>>

\* solver.solve(), the collaborator behaving as collab
SolveCall(collab) ==
    /\ solver.made
    /\ LET r == Solve(SelfCube, collab)
       IN  /\ solver' = [solver EXCEPT !.solution = r.solution]
           /\ last' = Call("solve", r.raised, "", <<>>, <<>>, collab,
                           IF r.raised THEN <<>> ELSE r.solution, r.calls)
    /\ prev' = faces
    /\ UNCHANGED <<faces, budget, heap, session>>

Next ==
    \/ \E face_name \in FaceInputs, colors \in ColourInputs :
           SetFaceCall(face_name, colors)
    \/ \E move \in MoveInputs : ApplyMoveCall(move)
    \/ \E col \in PaintInputs : SetAllFacesCall(col)
    \/ NewSolver
    \/ \E collab \in Collabs : SolveCall(collab)

Spec == Init /\ [][Next]_vars

\* the cube alone: no solver is ever constructed
CubeInit ==
    /\ faces = NewCube
    /\ solver = NoSolver
    /\ last = Call("init", FALSE, "", <<>>, <<>>, NoCollab, <<>>, <<>>)
    /\ prev = NewCube
    /\ budget = MaxCubeCalls
    /\ heap = NoHeap
    /\ session = NoSession

CubeNext ==
    \/ \E face_name \in FaceInputs, colors \in ColourInputs :
           SetFaceCall(face_name, colors)
    \/ \E move \in MoveInputs : ApplyMoveCall(move)
    \/ \E col \in PaintInputs : SetAllFacesCall(col)

CubeSpec == CubeInit /\ [][CubeNext]_vars

\* face names handed to set_face when faces are assigned by hand
EditFaceInputs == {"up", "down", "front", "top"}

\* colour lists handed to set_face when faces are assigned by hand: uniform
\* faces, a face with a code outside the six colours, a list of 3 entries, a
\* W face with an R centre, an R face with W at [0][1], a W face with R at [2][1]
EditColourInputs ==
    { Nine("Y"),
      Nine("W"),
      <<"W", "X", "W", "W", "W", "W", "W", "W", "W">>,
      <<"R", "R", "R">>,
      <<"W", "W", "W", "W", "R", "W", "W", "W", "W">>,
      <<"R", "W", "R", "R", "R", "R", "R", "R", "R">>,
      <<"W", "W", "W", "W", "W", "W", "W", "R", "W">> }

\* moves applied to a cube whose faces were assigned by hand
EditMoveInputs == { <<"U">>, <<"R", "'">>, <<"F", "2">>, <<"B">>, <<"X">> }

\* the cube with faces assigned by hand: set_face with any entries, and moves
EditInit ==
    /\ faces = NewCube
    /\ solver = NoSolver
    /\ last = Call("init", FALSE, "", <<>>, <<>>, NoCollab, <<>>, <<>>)
    /\ prev = NewCube
    /\ budget = MaxEdits
    /\ heap = NoHeap
    /\ session = NoSession

EditNext ==
    \/ \E face_name \in EditFaceInputs, colors \in EditColourInputs :
           SetFaceCall(face_name, colors)
    \/ \E move \in EditMoveInputs : ApplyMoveCall(move)

EditSpec == EditInit /\ [][EditNext]_vars

\* the cube reached from new() by apply_move alone
MoveInit ==
    /\ faces = NewCube
    /\ solver = NoSolver
    /\ last = Call("init", FALSE, "", <<>>, <<>>, NoCollab, <<>>, <<>>)
    /\ prev = NewCube
    /\ budget = MaxMoves
    /\ heap = NoHeap
    /\ session = NoSession

MoveNext == \E move \in MoveInputs : ApplyMoveCall(move)

MoveSpec == MoveInit /\ [][MoveNext]_vars

---------------------------------------------------------------------------
(* Properties of the move engine, checked under CubeSpec *)

\* longest move sequence tried for the sequence-inverse law
MaxSeqLen == 2

\* the facelets after apply_move(m) on c
Turn(c, m) == ApplyMove(c, m).faces

\* the inverse symbol: inv(X) = X', inv(X') = X, inv(X2) = X2
Inv(m) ==
    IF EndsWith(m, "'") THEN ButLast(m)
    ELSE IF EndsWith(m, "2") THEN m
    ELSE Append(m, "'")

\* the facelets after applying the moves of ms in order
RECURSIVE TurnAll(_, _)
TurnAll(c, ms) == IF ms = <<>> THEN c ELSE TurnAll(Turn(c, Head(ms)), Tail(ms))

\* inv(mn) .. inv(m1)
InvSeq(ms) == [k \in 1..Len(ms) |-> Inv(ms[Len(ms) + 1 - k])]

MoveSeqs == UNION {[1..n -> Moves] : n \in 0..MaxSeqLen}

\* C1: quarter-turn inverse law.  In every state of the cube reachable by
\* set_face calls and moves, for every base move X, apply_move(X) followed by
\* apply_move(X') leaves all 54 facelets as they were.
C1_QuarterTurnInverse ==
    \A x \in BaseLetters : Turn(Turn(faces, <<x>>), <<x, "'">>) = faces

\* C2: four quarter turns are the identity.  In every reachable state of the
\* cube, for every base move X, four apply_move(X) in a row leave all 54
\* facelets as they were.
C2_FourQuarterTurns ==
    \A x \in BaseLetters :
        Turn(Turn(Turn(Turn(faces, <<x>>), <<x>>), <<x>>), <<x>>) = faces

\* C3: sequence inverse.  In every reachable state of the cube, applying a
\* sequence m1..mn of moves of the 18-symbol alphabet and then
\* inv(mn)..inv(m1) returns all 54 facelets to their values before the first
\* move (sequences up to MaxSeqLen).
C3_SequenceInverse ==
    \A ms \in MoveSeqs : TurnAll(TurnAll(faces, ms), InvSeq(ms)) = faces

\* C4: double move by composition.  In every reachable state of the cube, for
\* every base move X, apply_move(X2) gives exactly what apply_move(X) followed
\* by apply_move(X) gives from the same state; and whenever the last call was
\* apply_move(X2), the cube is the two-fold quarter turn X of the cube before
\* the call.
C4_DoubleIsTwice ==
    /\ \A x \in BaseLetters :
           ApplyMove(faces, <<x, "2">>) = ApplyMove(Turn(faces, <<x>>), <<x>>)
    /\ (last.op = "apply_move" /\ last.move \in DoubleMoves)
           => /\ ~last.raised
              /\ faces = Turn(Turn(prev, ButLast(last.move)), ButLast(last.move))

\* C4's case: a double move was just applied to a scrambled cube and changed it
C4_Witness ==
    /\ last.op = "apply_move"
    /\ last.move \in DoubleMoves
    /\ ~IsSolved(prev)
    /\ faces # prev
    /\ faces = Turn(Turn(prev, ButLast(last.move)), ButLast(last.move))

---------------------------------------------------------------------------
(* Properties of the solver, checked under Spec *)

\* the last call was solver.solve()
LastWasSolve == last.op = "solve"

\* the 15 moves F2 R2 U2 B2 L2 R U R' U' F R U R' U' F'
Fallback15 ==
    << <<"F", "2">>, <<"R", "2">>, <<"U", "2">>, <<"B", "2">>, <<"L", "2">>,
       <<"R">>, <<"U">>, <<"R", "'">>, <<"U", "'">>, <<"F">>,
       <<"R">>, <<"U">>, <<"R", "'">>, <<"U", "'">>, <<"F", "'">> >>

\* toks is s split on whitespace: the maximal runs of non-whitespace
\* characters of s, in the order they occur in s
IsWhitespaceSplit(toks, s) ==
    LET starts == {i \in 1..Len(s) :
                      s[i] \notin Whitespace /\ (i = 1 \/ s[i - 1] \in Whitespace)}
        rank(i) == Cardinality({j \in starts : j <= i})
        runEnd(i) == CHOOSE e \in i..Len(s) :
                        /\ \A k \in i..e : s[k] \notin Whitespace
                        /\ (e = Len(s) \/ s[e + 1] \in Whitespace)
    IN  /\ Len(toks) = Cardinality(starts)
        /\ \A i \in starts : toks[rank(i)] = SubSeq(s, i, runEnd(i))

\* every facelet of c has the colour of one of the six centres
ColoursAreCentres(c) ==
    \A f \in FaceNames : \A i \in Idx : \A j \in Idx :
        \E g \in FaceNames : c[f][i][j] = c[g][1][1]

\* C5: solved fast path.  Whenever solve() is called on a solver whose cube is
\* solved (valid or not), it returns an empty Solution, raises nothing and
\* never invokes the external collaborator.
C5_SolvedFastPath ==
    (LastWasSolve /\ IsSolved(solver.cube))
        => /\ ~last.raised
           /\ last.ret = <<>>
           /\ solver.solution = <<>>
           /\ last.calls = <<>>

\* C5's case: solve() was called on the cube of test_mixed_color_cube, all 54
\* facelets R (solved but not valid), with a collaborator that would have raised
C5_Witness ==
    /\ LastWasSolve
    /\ IsSolved(solver.cube)
    /\ ~IsValid(solver.cube)
    /\ \A f \in FaceNames : solver.cube[f] = Uniform("R")
    /\ last.collab.raises
    /\ last.ret = <<>>

\* C6: invalid cubes are refused as data.  Whenever solve() is called on a
\* solver whose cube is not valid, it returns an empty Solution, raises
\* nothing and does not invoke the external collaborator.
C6_InvalidRefused ==
    (LastWasSolve /\ ~IsValid(solver.cube))
        => /\ ~last.raised
           /\ last.ret = <<>>
           /\ last.calls = <<>>

\* C6's case: solve() was called on a cube that is neither valid nor solved
\* and holds a colour code outside the six colours
C6_Witness ==
    /\ LastWasSolve
    /\ ~IsValid(solver.cube)
    /\ ~IsSolved(solver.cube)
    /\ \E f \in FaceNames : \E i \in Idx : \E j \in Idx :
           solver.cube[f][i][j] \notin CubeColours
    /\ last.ret = <<>>

\* C7: whenever solve() is called on a solver whose cube is valid and not
\* solved, the external collaborator is invoked exactly once, with the
\* 54-character encoding of that cube, and when the collaborator returns a
\* string the result of solve() is that string split on whitespace, in order.
C7_CollaboratorOnce ==
    (LastWasSolve /\ IsValid(solver.cube) /\ ~IsSolved(solver.cube))
        => /\ Len(last.calls) = 1
           /\ Len(last.calls[1]) = 54
           /\ last.calls[1] = ToKociembaString(solver.cube).str
           /\ ~last.collab.raises
                 => /\ ~last.raised
                    /\ IsWhitespaceSplit(last.ret, last.collab.ret)
                    /\ solver.solution = last.ret

\* C7's case: solve() was called on a valid, unsolved cube and the
\* collaborator returned a string with leading, repeated and trailing
\* whitespace, from which two tokens came back
C7_Witness ==
    /\ LastWasSolve
    /\ IsValid(solver.cube)
    /\ ~IsSolved(solver.cube)
    /\ ~last.collab.raises
    /\ last.collab.ret = <<" ", "R", "2", "\n", " ", "U", " ">>
    /\ last.ret = << <<"R", "2">>, <<"U">> >>

\* C8: fallback on collaborator failure.  Whenever solve() is called on a
\* solver whose cube is valid and not solved and the collaborator raises,
\* solve() returns exactly F2 R2 U2 B2 L2 R U R' U' F R U R' U' F', whatever
\* the facelets, and raises nothing.
C8_Fallback ==
    (LastWasSolve /\ IsValid(solver.cube) /\ ~IsSolved(solver.cube) /\ last.collab.raises)
        => /\ ~last.raised
           /\ last.ret = Fallback15
           /\ Len(last.ret) = 15

\* C8's case: the collaborator was invoked on a valid, unsolved cube and raised
C8_Witness ==
    /\ LastWasSolve
    /\ IsValid(solver.cube)
    /\ ~IsSolved(solver.cube)
    /\ last.collab.raises
    /\ Len(last.calls) = 1
    /\ last.ret = Fallback15

\* C9: solve() is total.  Whatever cube the solver was built from (set_face
\* with any 9 entries, colour codes outside the six included, and moves) and
\* whether the collaborator returns a string or raises, solve() returns and
\* never raises; the encoding step is reached only for cubes whose every
\* facelet has the colour of one of the six centres.
C9_SolveTotal ==
    /\ LastWasSolve => ~last.raised
    /\ (solver.made /\ ~IsSolved(solver.cube) /\ IsValid(solver.cube))
           => /\ ColoursAreCentres(solver.cube)
              /\ ~ToKociembaString(solver.cube).raised
    /\ (LastWasSolve /\ last.calls # <<>>) => ColoursAreCentres(solver.cube)

\* C9's case: solve() returned on a cube that holds a colour code outside the
\* six colours at a facelet that is no centre, all six centres being distinct
C9_Witness ==
    /\ LastWasSolve
    /\ ~last.raised
    /\ ~ColoursAreCentres(solver.cube)
    /\ Cardinality({solver.cube[f][1][1] : f \in FaceNames}) = 6
    /\ ~IsSolved(solver.cube)

\* C10: solving never mutates caller state.  After RubiksCubeSolver(cube) and
\* after solve(), on each of its four outcome paths (already solved, invalid,
\* collaborator success, collaborator failure), the caller's cube has the 54
\* facelets it had before the call.
C10_CallerCubeUnchanged ==
    (last.op = "new_solver" \/ LastWasSolve) => faces = prev

\* C10's case: solve() took the fallback path on a scrambled cube, which the
\* caller still holds as it was
C10_Witness ==
    /\ LastWasSolve
    /\ last.collab.raises
    /\ last.ret = Fallback15
    /\ faces = prev
    /\ faces = solver.cube
    /\ ~IsSolved(faces)

---------------------------------------------------------------------------
(* Properties of face assignment, of the checks and of single moves *)

\* the solved cube the spec calls canonical: up W, down Y, front R, back O,
\* right B, left G on all 9 facelets
CanonicalColour ==
    [f \in FaceNames |->
        CASE f = "up" -> "W" [] f = "down" -> "Y" [] f = "front" -> "R"
          [] f = "back" -> "O" [] f = "right" -> "B" [] f = "left" -> "G"]

\* C12: face assignment round-trip.  Whenever set_face(f, c) has succeeded,
\* on any of the six faces and from any prior cube state, get_face_flat(f)
\* returns the 9 entries of c in the same row-major order.
C12_SetFaceRoundTrip ==
    (last.op = "set_face" /\ ~last.raised)
        => /\ Len(last.colors) = 9
           /\ GetFaceFlat(faces, last.face) = last.colors

\* C12's case: a list that is not symmetric under transposition was stored on
\* the left face of a cube already changed by an earlier call
C12_Witness ==
    /\ last.op = "set_face"
    /\ ~last.raised
    /\ last.face = "left"
    /\ last.colors = <<"W", "X", "W", "W", "W", "W", "W", "W", "W">>
    /\ prev # NewCube
    /\ GetFaceFlat(faces, "left") = last.colors

\* C13: set_face fails fast without mutation.  Whenever set_face was called
\* with a face name that is none of up, down, front, back, left, right, or
\* with a list that does not have exactly 9 entries, it signalled an error and
\* all 54 facelets are as they were before the call.
C13_SetFaceFailsFast ==
    (/\ last.op = "set_face"
     /\ \/ last.face \notin {"up", "down", "front", "back", "left", "right"}
        \/ Len(last.colors) # 9)
        => /\ last.raised
           /\ faces = prev

\* C13's case: a list of 3 entries was handed to set_face for a face that
\* exists, on a cube that an earlier call had changed
C13_Witness ==
    /\ last.op = "set_face"
    /\ last.face = "up"
    /\ Len(last.colors) = 3
    /\ last.raised
    /\ prev # NewCube
    /\ faces = prev

\* C14: apply_move fails fast without mutation.  Whenever apply_move was
\* called with a symbol outside the 18-symbol alphabet (an unknown letter with
\* or without a suffix, a known letter with two suffixes, the empty symbol),
\* it signalled an error and all 54 facelets are as they were before the
\* call; and in every reachable state each such symbol would do so.
C14_ApplyMoveFailsFast ==
    /\ (last.op = "apply_move" /\ last.move \notin Moves)
           => /\ last.raised
              /\ faces = prev
    /\ \A m \in MoveInputs \ Moves : ApplyMove(faces, m) = Raised(faces)

\* C14's case: U'2, whose base symbol U' is rejected by the first of the two
\* quarter turns, was handed to apply_move on a scrambled cube
C14_Witness ==
    /\ last.op = "apply_move"
    /\ last.move = <<"U", "'", "2">>
    /\ last.raised
    /\ ~IsSolved(prev)
    /\ faces = prev

\* C15: the constructor produces the canonical solved cube (up W, down Y,
\* front R, back O, right B, left G on all 9 facelets of the face), and on it
\* is_solved() and is_valid() are true.
C15_ConstructorSolved ==
    last.op = "init"
        => /\ \A f \in FaceNames : \A i \in Idx : \A j \in Idx :
                  faces[f][i][j] = CanonicalColour[f]
           /\ IsSolved(faces)
           /\ IsValid(faces)

\* C15's case: the cube as constructed, before any call
C15_Witness ==
    /\ last.op = "init"
    /\ budget = MaxCubeCalls
    /\ GetFaceFlat(faces, "left") = Nine("G")
    /\ GetFaceFlat(faces, "right") = Nine("B")

\* the 54 facelet positions of a cube
Facelets == FaceNames \X Idx \X Idx

\* the weak legality predicate of the spec: each of the six colour codes on
\* exactly 9 of the 54 facelets, and the six centres pairwise distinct
WeakLegal(c) ==
    /\ \A col \in CubeColours :
           Cardinality({p \in Facelets : c[p[1]][p[2]][p[3]] = col}) = 9
    /\ \A f \in FaceNames : \A g \in FaceNames \ {f} : c[f][1][1] # c[g][1][1]

\* the facelets of c outside face f that carry colour col
ElsewhereCount(c, f, col) ==
    Cardinality({p \in Facelets : p[1] # f /\ c[p[1]][p[2]][p[3]] = col})

\* the solved cube with the two stickers of the up-front edge swapped: every
\* colour 9 times, centres distinct, reachable by no move sequence
EdgeFlipped ==
    [NewCube EXCEPT !["up"][2][1] = "R", !["front"][0][1] = "W"]

\* C16: is_valid() decides exactly the weak legality predicate.  In every
\* reachable state is_valid() is a boolean (it never raises) that is true if
\* and only if each of the six colours occurs exactly 9 times and the six
\* centres are pairwise distinct; it is false after a face was overwritten
\* with a colour found 9 times on the other faces, and false when two faces
\* share a centre colour although every colour count is 9.
C16_IsValidWeakLegality ==
    /\ IsValid(faces) \in BOOLEAN
    /\ IsValid(faces) = WeakLegal(faces)
    /\ (/\ last.op = "set_face"
        /\ ~last.raised
        /\ \E col \in CubeColours :
               /\ last.colors = Nine(col)
               /\ ElsewhereCount(faces, last.face, col) = 9)
           => ~IsValid(faces)
    /\ (/\ \A col \in CubeColours : ColorCount(faces, col) = 9
        /\ \E f \in FaceNames : \E g \in FaceNames \ {f} :
               faces[f][1][1] = faces[g][1][1])
           => ~IsValid(faces)

\* C16's case: the cube with one edge flipped, which no move sequence
\* reaches, has been built by two face assignments and is_valid() accepts it
C16_Witness ==
    /\ last.op = "set_face"
    /\ faces = EdgeFlipped
    /\ ~IsSolved(faces)
    /\ IsValid(faces)

\* the order of the faces in the encoded string, and the letter of each
EncodedFaces == <<"up", "right", "front", "down", "left", "back">>
EncodedLetters == <<"U", "R", "F", "D", "L", "B">>

\* the letter of a colour: that of the face which has the colour at its centre
LetterOf(c, col) ==
    EncodedLetters[CHOOSE k \in 1..6 : c[EncodedFaces[k]][1][1] = col]

\* C17: encoding of valid cubes.  Whenever is_valid() is true of the cube, the
\* encoder does not fail and its string has exactly 54 characters over
\* U,R,F,D,L,B; the character at 0-based index 9k+3r+c is the letter of the
\* colour at [r][c] of the k-th face in the order up, right, front, down,
\* left, back, a colour's letter being that of the face with this colour at
\* its centre; each letter occurs exactly 9 times and indices 4, 13, 22, 31,
\* 40, 49 hold U, R, F, D, L, B.
C17_EncodingOfValid ==
    IsValid(faces) =>
        LET enc == ToKociembaString(faces)
        IN  /\ ~enc.raised
            /\ Len(enc.str) = 54
            /\ \A n \in 1..54 : enc.str[n] \in {"U", "R", "F", "D", "L", "B"}
            /\ \A k \in 0..5 : \A r \in Idx : \A col \in Idx :
                   enc.str[9 * k + 3 * r + col + 1]
                       = LetterOf(faces, faces[EncodedFaces[k + 1]][r][col])
            /\ \A k \in 1..6 :
                   Cardinality({n \in 1..54 : enc.str[n] = EncodedLetters[k]}) = 9
            /\ \A k \in 0..5 : enc.str[9 * k + 4 + 1] = EncodedLetters[k + 1]

\* C17's case: a valid cube whose up and down faces carry each other's
\* colours at the centre, so that Y is encoded as U and W as D
C17_Witness ==
    /\ IsValid(faces)
    /\ faces["up"][1][1] = "Y"
    /\ faces["down"][1][1] = "W"
    /\ ToKociembaString(faces).str[5] = "U"
    /\ ToKociembaString(faces).str[32] = "D"

---------------------------------------------------------------------------
(* Properties of cubes reached by moves *)

\* the centre-to-letter mapping of the canonical colouring
CanonicalMap ==
    [col \in CubeColours |->
        CASE col = "W" -> "U" [] col = "B" -> "R" [] col = "R" -> "F"
          [] col = "Y" -> "D" [] col = "G" -> "L" [] col = "O" -> "B"]

\* UUUUUUUUURRRRRRRRRFFFFFFFFFDDDDDDDDDLLLLLLLLLBBBBBBBBB
SolvedEncoding ==
    <<"U", "U", "U", "U", "U", "U", "U", "U", "U",
      "R", "R", "R", "R", "R", "R", "R", "R", "R",
      "F", "F", "F", "F", "F", "F", "F", "F", "F",
      "D", "D", "D", "D", "D", "D", "D", "D", "D",
      "L", "L", "L", "L", "L", "L", "L", "L", "L",
      "B", "B", "B", "B", "B", "B", "B", "B", "B">>

\* C18: encoding round-trip of face identity.  In every cube produced from
\* the constructed cube by moves alone, the centre-to-letter mapping built by
\* the encoder is W to U, B to R, R to F, Y to D, G to L, O to B, and the
\* solved cube is encoded as SolvedEncoding.
C18_CanonicalMapping ==
    /\ ColorMap(faces) = CanonicalMap
    /\ IsSolved(faces) => ToKociembaString(faces) = [raised |-> FALSE, str |-> SolvedEncoding]

\* C18's case: three moves have scrambled the cube and the encoder still maps
\* the six colours to the letters of their original faces
C18_Witness ==
    /\ last.op = "apply_move"
    /\ ~last.raised
    /\ budget = 0
    /\ ~IsSolved(faces)
    /\ faces["up"][0][0] # "W"
    /\ ColorMap(faces)["W"] = "U"
    /\ ColorMap(faces)["O"] = "B"

\* C19: centres are fixed by every face turn.  The facelet at [1][1] of each
\* of the six faces is the same after an apply_move call as before it, and in
\* every reachable cube state each of the 18 moves would leave it the same.
C19_CentresFixed ==
    /\ last.op = "apply_move"
           => \A f \in FaceNames : faces[f][1][1] = prev[f][1][1]
    /\ \A m \in Moves : \A f \in FaceNames :
           Turn(faces, m)[f][1][1] = faces[f][1][1]

\* C19's case: a move has changed a cube whose centres were repainted before,
\* and the repainted centre has stayed
C19_Witness ==
    /\ last.op = "apply_move"
    /\ ~last.raised
    /\ faces # prev
    /\ \E f \in FaceNames : prev[f][1][1] # NewCube[f][1][1]
    /\ \A f \in FaceNames : faces[f][1][1] = prev[f][1][1]

\* C20: every move is a permutation of the 54 facelets.  After a successful
\* apply_move each colour occurs as often as before the call and is_valid()
\* has the value it had before; and every cube obtained from the constructed
\* cube by a sequence of moves is valid.
C20_MovesPermute ==
    /\ (last.op = "apply_move" /\ ~last.raised)
           => /\ \A col \in Colour : ColorCount(faces, col) = ColorCount(prev, col)
              /\ IsValid(faces) = IsValid(prev)
    /\ last.op = "init" => \A ms \in MoveSeqs : IsValid(TurnAll(faces, ms))

\* C20's case: a move has carried the one facelet outside the six colours to
\* another position of an invalid cube; the counts and the verdict have stayed
C20_Witness ==
    /\ last.op = "apply_move"
    /\ ~last.raised
    /\ ColorCount(prev, "X") = 1
    /\ ColorCount(faces, "X") = 1
    /\ \E p \in Facelets : prev[p[1]][p[2]][p[3]] = "X" /\ faces[p[1]][p[2]][p[3]] # "X"
    /\ ~IsValid(faces)

---------------------------------------------------------------------------
(* The objects behind self.faces.  The faces of a RubiksCube are a dict    *)
(* whose values are lists of three row lists of three strings.  Dicts,     *)
(* face lists and row lists are objects: each has an address, its index in *)
(* heap.dicts, heap.lists or heap.rows, and a new object is appended.  A   *)
(* cube is known by the address d of its dict.  The methods are translated *)
(* assignment by assignment: an assignment to self.faces[f] or to          *)
(* self.faces[f][i] stores the address of a new list, an assignment to     *)
(* self.faces[f][i][j] changes the row list that is there, whoever else    *)
(* refers to it.                                                           *)

\* calls made on the two cubes in one behaviour of HeapSpec, copy() included
MaxHeapCalls == 3

\* the address of the face list self.faces[f], and of its row list i
ListOf(h, d, f) == h.dicts[d][f]
RowOf(h, d, f, i) == h.lists[ListOf(h, d, f)][i]

\* self.faces[f][i][j]
Cell(h, d, f, i, j) == h.rows[RowOf(h, d, f, i)][j]

\* the entries of self.faces[f][i].copy()
RowCopy(h, d, f, i) == h.rows[RowOf(h, d, f, i)]

\* self.faces[f][i][j] = v
StoreCell(h, d, f, i, j, v) == [h EXCEPT !.rows[RowOf(h, d, f, i)][j] = v]

\* self.faces[f][i] = row, where row is a list made by .copy() or by a
\* comprehension, which nothing else refers to
StoreRow(h, d, f, i, row) ==
    [h EXCEPT !.rows = Append(@, row),
              !.lists[ListOf(h, d, f)][i] = Len(h.rows) + 1]

\* self.faces[f] = [[...], [...], [...]]: a new face list of three new rows
StoreFace(h, d, f, grid) ==
    [h EXCEPT !.rows = @ \o <<grid[0], grid[1], grid[2]>>,
              !.lists = Append(@, [i \in Idx |-> Len(h.rows) + 1 + i]),
              !.dicts[d][f] = Len(h.lists) + 1]

\* the 54 facelets of the cube whose dict is at d
Deref(h, d) ==
    [f \in FaceNames |-> [i \in Idx |-> [j \in Idx |-> Cell(h, d, f, i, j)]]]

\* the positions [i][j] of row i and of column j of face f, for i or j = 0, 1, 2
RowPos(f, i) == << <<f, i, 0>>, <<f, i, 1>>, <<f, i, 2>> >>
ColPos(f, j) == << <<f, 0, j>>, <<f, 1, j>>, <<f, 2, j>> >>
RevPos(ps) == <<ps[3], ps[2], ps[1]>>

\* for i in range(3): <cell dst[i]> = <cell src[i]>, one assignment after the
\* other on the same heap
CopyCells(h, d, dst, src) ==
    LET step(g, k) == StoreCell(g, d, dst[k][1], dst[k][2], dst[k][3],
                                Cell(g, d, src[k][1], src[k][2], src[k][3]))
    IN  step(step(step(h, 1), 2), 3)

\* for i in range(3): <cell dst[i]> = temp[i] or temp[2-i], temp a saved list
StoreCells(h, d, dst, temp, reversed) ==
    LET step(g, k) == StoreCell(g, d, dst[k][1], dst[k][2], dst[k][3],
                                IF reversed THEN temp[3 - k] ELSE temp[k - 1])
    IN  step(step(step(h, 1), 2), 3)

\* RubiksCube._rotate_face on the heap
HeapRotateFace(h, d, face_name, clockwise) ==
    LET face == [i \in Idx |-> RowCopy(h, d, face_name, i)]
    IN  IF clockwise
        THEN StoreFace(h, d, face_name, [i \in Idx |-> [j \in Idx |-> face[2 - j][i]]])
        ELSE StoreFace(h, d, face_name, [i \in Idx |-> [j \in Idx |-> face[j][2 - i]]])

\* RubiksCube._rotate_up on the heap
HeapRotateUp(h, d, clockwise) ==
    LET h0 == HeapRotateFace(h, d, "up", clockwise)
        temp == RowCopy(h0, d, "front", 0)
    IN  IF clockwise
        THEN LET h1 == StoreRow(h0, d, "front", 0, RowCopy(h0, d, "right", 0))
                 h2 == StoreRow(h1, d, "right", 0, RowCopy(h1, d, "back", 0))
                 h3 == StoreRow(h2, d, "back", 0, RowCopy(h2, d, "left", 0))
             IN  StoreRow(h3, d, "left", 0, temp)
        ELSE LET h1 == StoreRow(h0, d, "front", 0, RowCopy(h0, d, "left", 0))
                 h2 == StoreRow(h1, d, "left", 0, RowCopy(h1, d, "back", 0))
                 h3 == StoreRow(h2, d, "back", 0, RowCopy(h2, d, "right", 0))
             IN  StoreRow(h3, d, "right", 0, temp)

\* RubiksCube._rotate_down on the heap
HeapRotateDown(h, d, clockwise) ==
    LET h0 == HeapRotateFace(h, d, "down", clockwise)
        temp == RowCopy(h0, d, "front", 2)
    IN  IF clockwise
        THEN LET h1 == StoreRow(h0, d, "front", 2, RowCopy(h0, d, "left", 2))
                 h2 == StoreRow(h1, d, "left", 2, RowCopy(h1, d, "back", 2))
                 h3 == StoreRow(h2, d, "back", 2, RowCopy(h2, d, "right", 2))
             IN  StoreRow(h3, d, "right", 2, temp)
        ELSE LET h1 == StoreRow(h0, d, "front", 2, RowCopy(h0, d, "right", 2))
                 h2 == StoreRow(h1, d, "right", 2, RowCopy(h1, d, "back", 2))
                 h3 == StoreRow(h2, d, "back", 2, RowCopy(h2, d, "left", 2))
             IN  StoreRow(h3, d, "left", 2, temp)

\* one iteration of a loop of _rotate_right or _rotate_left on the heap: four
\* assignments a = b; b = c; c = e; e = temp[i], where column col of front,
\* of first and of second and column 2 - col of back (rows reversed) are cycled
HeapSideStep(h, d, temp, i, col, first, second) ==
    LET h1 == StoreCell(h,  d, "front", i, col, Cell(h, d, first, i, col))
        h2 == StoreCell(h1, d, first, i, col, Cell(h1, d, "back", 2 - i, 2 - col))
        h3 == StoreCell(h2, d, "back", 2 - i, 2 - col, Cell(h2, d, second, i, col))
    IN  StoreCell(h3, d, second, i, col, temp[i])

\* RubiksCube._rotate_right on the heap
HeapRotateRight(h, d, clockwise) ==
    LET h0 == HeapRotateFace(h, d, "right", clockwise)
        temp == [i \in Idx |-> Cell(h0, d, "front", i, 2)]
        first == IF clockwise THEN "down" ELSE "up"
        second == IF clockwise THEN "up" ELSE "down"
        h1 == HeapSideStep(h0, d, temp, 0, 2, first, second)
        h2 == HeapSideStep(h1, d, temp, 1, 2, first, second)
    IN  HeapSideStep(h2, d, temp, 2, 2, first, second)

\* RubiksCube._rotate_left on the heap
HeapRotateLeft(h, d, clockwise) ==
    LET h0 == HeapRotateFace(h, d, "left", clockwise)
        temp == [i \in Idx |-> Cell(h0, d, "front", i, 0)]
        first == IF clockwise THEN "up" ELSE "down"
        second == IF clockwise THEN "down" ELSE "up"
        h1 == HeapSideStep(h0, d, temp, 0, 0, first, second)
        h2 == HeapSideStep(h1, d, temp, 1, 0, first, second)
    IN  HeapSideStep(h2, d, temp, 2, 0, first, second)

\* RubiksCube._rotate_front on the heap
HeapRotateFront(h, d, clockwise) ==
    LET h0 == HeapRotateFace(h, d, "front", clockwise)
        temp == RowCopy(h0, d, "up", 2)
    IN  IF clockwise
        THEN LET h1 == StoreRow(h0, d, "up", 2,
                                [i \in Idx |-> Cell(h0, d, "left", 2 - i, 2)])
                 h2 == CopyCells(h1, d, ColPos("left", 2), RowPos("down", 0))
                 h3 == StoreRow(h2, d, "down", 0,
                                [i \in Idx |-> Cell(h2, d, "right", 2 - i, 0)])
             IN  StoreCells(h3, d, ColPos("right", 0), temp, FALSE)
        ELSE LET h1 == CopyCells(h0, d, RowPos("up", 2), ColPos("right", 0))
                 h2 == StoreFace(h1, d, "right",
                           [i \in Idx |-> [j \in Idx |->
                               IF j = 0 THEN Cell(h1, d, "down", 0, 2 - i)
                                        ELSE Cell(h1, d, "right", i, j)]])
                 h3 == CopyCells(h2, d, RowPos("down", 0), ColPos("left", 2))
             IN  StoreCells(h3, d, ColPos("left", 2), temp, TRUE)

\* _rotate_back on the heap with temp = self.faces['up'][0], no .copy(): temp
\* is the row list itself, which the clockwise branch then writes cell by cell
HeapRotateBack_NoTempCopy(h, d, clockwise) ==
    LET h0 == HeapRotateFace(h, d, "back", clockwise)
    IN  IF clockwise
        THEN LET h1 == CopyCells(h0, d, RowPos("up", 0), ColPos("right", 2))
                 h2 == CopyCells(h1, d, ColPos("right", 2), RevPos(RowPos("down", 2)))
                 h3 == StoreRow(h2, d, "down", 2,
                                [i \in Idx |-> Cell(h2, d, "left", 2 - i, 0)])
             IN  StoreCells(h3, d, ColPos("left", 0), RowCopy(h3, d, "up", 0), TRUE)
        ELSE LET h1 == StoreRow(h0, d, "up", 0,
                                [i \in Idx |-> Cell(h0, d, "left", 2 - i, 0)])
                 h2 == CopyCells(h1, d, ColPos("left", 0), RowPos("down", 2))
                 h3 == CopyCells(h2, d, RowPos("down", 2), RevPos(ColPos("right", 2)))
             IN  StoreCells(h3, d, ColPos("right", 2), RowCopy(h0, d, "up", 0), FALSE)

\* RubiksCube._rotate_back on the heap
HeapRotateBack(h, d, clockwise) ==
    LET h0 == HeapRotateFace(h, d, "back", clockwise)
        temp == RowCopy(h0, d, "up", 0)
    IN  IF clockwise
        THEN LET h1 == CopyCells(h0, d, RowPos("up", 0), ColPos("right", 2))
                 h2 == CopyCells(h1, d, ColPos("right", 2), RevPos(RowPos("down", 2)))
                 h3 == StoreRow(h2, d, "down", 2,
                                [i \in Idx |-> Cell(h2, d, "left", 2 - i, 0)])
             IN  StoreCells(h3, d, ColPos("left", 0), temp, TRUE)
        ELSE LET h1 == StoreRow(h0, d, "up", 0,
                                [i \in Idx |-> Cell(h0, d, "left", 2 - i, 0)])
                 h2 == CopyCells(h1, d, ColPos("left", 0), RowPos("down", 2))
                 h3 == CopyCells(h2, d, RowPos("down", 2), RevPos(ColPos("right", 2)))
             IN  StoreCells(h3, d, ColPos("right", 2), temp, FALSE)

\* the result of a method on the heap: whether it raised, and the heap after
HeapDone(h)   == [raised |-> FALSE, heap |-> h]
HeapRaised(h) == [raised |-> TRUE,  heap |-> h]

\* RubiksCube._apply_base_move on the heap
HeapApplyBaseMove(h, d, move, clockwise) ==
    CASE move = <<"U">> -> HeapDone(HeapRotateUp(h, d, clockwise))
      [] move = <<"D">> -> HeapDone(HeapRotateDown(h, d, clockwise))
      [] move = <<"L">> -> HeapDone(HeapRotateLeft(h, d, clockwise))
      [] move = <<"R">> -> HeapDone(HeapRotateRight(h, d, clockwise))
      [] move = <<"F">> -> HeapDone(HeapRotateFront(h, d, clockwise))
      [] move = <<"B">> -> HeapDone(HeapRotateBack(h, d, clockwise))
      [] OTHER          -> HeapRaised(h)

\* RubiksCube.apply_move on the heap
HeapApplyMove(h, d, move) ==
    IF EndsWith(move, "'")
    THEN HeapApplyBaseMove(h, d, ButLast(move), FALSE)
    ELSE IF EndsWith(move, "2")
    THEN LET r1 == HeapApplyBaseMove(h, d, ButLast(move), TRUE)
         IN  IF r1.raised THEN r1 ELSE HeapApplyBaseMove(r1.heap, d, ButLast(move), TRUE)
    ELSE HeapApplyBaseMove(h, d, move, TRUE)

\* set_face on the heap without the test of len(colors): the entries are
\* stored in rows of three, as many rows as they fill
HeapSetFace_NoLengthCheck(h, d, face_name, colors) ==
    IF face_name \notin DOMAIN h.dicts[d]
    THEN HeapRaised(h)
    ELSE LET n == Len(colors) \div 3
         IN  HeapDone(
               [h EXCEPT
                  !.rows  = @ \o [k \in 1..n |->
                                    [j \in Idx |-> colors[3 * (k - 1) + j + 1]]],
                  !.lists = Append(@, [i \in 0..(n - 1) |-> Len(h.rows) + 1 + i]),
                  !.dicts[d][face_name] = Len(h.lists) + 1])

\* RubiksCube.set_face on the heap
HeapSetFace(h, d, face_name, colors) ==
    IF face_name \notin DOMAIN h.dicts[d]
    THEN HeapRaised(h)
    ELSE IF Len(colors) = 9
    THEN HeapDone(StoreFace(h, d, face_name,
                      [i \in Idx |-> [j \in Idx |-> colors[3 * i + j + 1]]]))
    ELSE HeapRaised(h)

\* the keys of self.faces in the order of the dict
DictOrder == <<"up", "down", "front", "back", "right", "left">>

\* RubiksCube.__init__ on the heap: a new dict of six new face lists of three
\* new rows each; its address is Len(h.dicts) + 1
HeapNew(h) ==
    LET d == Len(h.dicts) + 1
        build[k \in 0..6] ==
            IF k = 0
            THEN [h EXCEPT !.dicts = Append(@, [f \in FaceNames |-> 0])]
            ELSE StoreFace(build[k - 1], d, DictOrder[k], NewCube[DictOrder[k]])
    IN  build[6]

\* copy.deepcopy(self.faces) on the heap: a new dict at Len(h.dicts) + 1, and
\* one new list for every list reached from the dict at d; as deepcopy's memo
\* does, a list reached twice is copied once and its copy is shared
HeapDeepCopy(h, d) ==
    LET listAt(k) == ListOf(h, d, DictOrder[k])
        rowAt(n)  == h.lists[listAt(((n - 1) \div 3) + 1)][(n - 1) % 3]
        firstList(k) == CHOOSE k1 \in 1..k :
                            /\ listAt(k1) = listAt(k)
                            /\ \A k2 \in 1..(k1 - 1) : listAt(k2) # listAt(k)
        firstRow(n)  == CHOOSE n1 \in 1..n :
                            /\ rowAt(n1) = rowAt(n)
                            /\ \A n2 \in 1..(n1 - 1) : rowAt(n2) # rowAt(n)
        nr == Len(h.rows)
        nl == Len(h.lists)
        index(f) == CHOOSE k \in 1..6 : DictOrder[k] = f
    IN  [h EXCEPT
           !.rows  = @ \o [n \in 1..18 |-> h.rows[rowAt(n)]],
           !.lists = @ \o [k \in 1..6 |->
                              [i \in Idx |-> nr + firstRow(3 * (firstList(k) - 1) + i + 1)]],
           !.dicts = Append(@, [f \in FaceNames |-> nl + firstList(index(f))])]

\* copy() with copy.copy(self.faces): the new cube gets a new dict that
\* refers to the face lists of the old one
HeapCopy_Shallow(h, d) ==
    LET h1 == HeapNew(h)
        h2 == [h1 EXCEPT !.dicts = Append(@, h1.dicts[d])]
    IN  [heap |-> h2, obj |-> Len(h2.dicts)]

\* RubiksCube.copy on the heap: new_cube = RubiksCube(), then new_cube.faces
\* refers to the dict made by deepcopy; obj is the address of that dict
HeapCopy(h, d) ==
    LET h1 == HeapNew(h)
        h2 == HeapDeepCopy(h1, d)
    IN  [heap |-> h2, obj |-> Len(h2.dicts)]

\* the addresses of the face lists and of the row lists of the cube at d
ListsOf(h, d) == {ListOf(h, d, f) : f \in FaceNames}
RowsOf(h, d) == {RowOf(h, d, f, i) : f \in FaceNames, i \in Idx}

\* the caller's cube and its copy as objects.  faces and solver.cube are
\* the facelets each of the two cubes has by the calls made on it alone;
\* heap.cube and heap.copy are the addresses of their dicts.

\* arguments of the calls made on the two cubes
HeapFaceInputs == {"up", "top"}
HeapColourInputs ==
    { Nine("Y"), <<"W", "X", "W", "W", "W", "W", "W", "W", "W">>, <<"R", "R", "R">> }
HeapMoveInputs == BaseMoves \cup PrimeMoves \cup { <<"U", "2">>, <<"X">> }

\* the two cubes a call can be made on, and the facelets and address of each
Targets == {"cube", "copy"}
FaceletsOf(target) == IF target = "cube" THEN faces ELSE solver.cube
AddressOf(h, target) == IF target = "cube" THEN h.cube ELSE h.copy

HeapInit ==
    /\ faces = NewCube
    /\ solver = NoSolver
    /\ last = Call("init", FALSE, "", <<>>, <<>>, NoCollab, <<>>, <<>>)
    /\ prev = NewCube
    /\ budget = MaxHeapCalls
    /\ heap = [HeapNew(NoHeap) EXCEPT !.cube = 1]
    /\ session = NoSession

\* self.cube = cube.copy()
CopyCall ==
    /\ budget > 0
    /\ ~solver.made
    /\ LET r == HeapCopy(heap, heap.cube)
       IN  heap' = [r.heap EXCEPT !.copy = r.obj]
    /\ solver' = [made |-> TRUE, cube |-> Copy(faces), solution |-> <<>>]
    /\ last' = Call("copy", FALSE, "", <<>>, <<>>, NoCollab, <<>>, <<>>)
    /\ prev' = faces
    /\ budget' = budget - 1
    /\ UNCHANGED session
    /\ UNCHANGED faces

\* the facelets of the two cubes after a call on target has left it with c
Updated(target, c) ==
    /\ faces' = IF target = "cube" THEN c ELSE faces
    /\ solver' = IF target = "copy" THEN [solver EXCEPT !.cube = c] ELSE solver

\* target.set_face(face_name, colors)
HeapSetFaceCall(target, face_name, colors) ==
    /\ budget > 0
    /\ target = "copy" => solver.made
    /\ LET r == HeapSetFace(heap, AddressOf(heap, target), face_name, colors)
       IN  /\ heap' = r.heap
           /\ last' = Call(target \o ".set_face", r.raised, face_name, colors, <<>>,
                           NoCollab, <<>>, <<>>)
    /\ Updated(target, SetFace(FaceletsOf(target), face_name, colors).faces)
    /\ prev' = FaceletsOf(target)
    /\ budget' = budget - 1
    /\ UNCHANGED session

\* target.apply_move(move)
HeapApplyMoveCall(target, move) ==
    /\ budget > 0
    /\ target = "copy" => solver.made
    /\ LET r == HeapApplyMove(heap, AddressOf(heap, target), move)
       IN  /\ heap' = r.heap
           /\ last' = Call(target \o ".apply_move", r.raised, "", <<>>, move,
                           NoCollab, <<>>, <<>>)
    /\ Updated(target, ApplyMove(FaceletsOf(target), move).faces)
    /\ prev' = FaceletsOf(target)
    /\ budget' = budget - 1
    /\ UNCHANGED session

HeapNext ==
    \/ CopyCall
    \/ \E target \in Targets, face_name \in HeapFaceInputs, colors \in HeapColourInputs :
           HeapSetFaceCall(target, face_name, colors)
    \/ \E target \in Targets, move \in HeapMoveInputs : HeapApplyMoveCall(target, move)

HeapSpec == HeapInit /\ [][HeapNext]_vars

\* C11: copy() independence.  The cube copy() returns has the 54 facelets of
\* the source, and after any interleaving of set_face and apply_move calls on
\* the source and on the copy, the facelets found through each cube's dict
\* are those which the calls made on that cube alone give it; the two cubes
\* have different dicts and share no face list and no row list.
C11_CopyIndependent ==
    /\ Deref(heap, heap.cube) = faces
    /\ solver.made =>
           /\ Deref(heap, heap.copy) = solver.cube
           /\ heap.copy # heap.cube
           /\ ListsOf(heap, heap.cube) \cap ListsOf(heap, heap.copy) = {}
           /\ RowsOf(heap, heap.cube) \cap RowsOf(heap, heap.copy) = {}
    /\ last.op = "copy" => Deref(heap, heap.copy) = Deref(heap, heap.cube)

\* C11's case: after copy() a move has changed the source, then a move has
\* changed the copy, and the two cubes differ
C11_Witness ==
    /\ solver.made
    /\ budget = 0
    /\ last.op = "copy.apply_move"
    /\ ~last.raised
    /\ solver.cube # prev
    /\ faces # prev
    /\ faces # NewCube
    /\ Deref(heap, heap.cube) # Deref(heap, heap.copy)

---------------------------------------------------------------------------
(* Properties of the grid and of single turns *)

\* the cube whose dict is at d has the six faces, each a list of 3 rows of
\* 3 entries
ShapeOK(h, d) ==
    /\ DOMAIN h.dicts[d] = {"up", "down", "front", "back", "left", "right"}
    /\ \A f \in DOMAIN h.dicts[d] :
           /\ DOMAIN h.lists[ListOf(h, d, f)] = 0..2
           /\ \A i \in DOMAIN h.lists[ListOf(h, d, f)] :
                  DOMAIN h.rows[RowOf(h, d, f, i)] = 0..2

\* C21: grid shape invariant.  After any sequence of successful or failed
\* set_face, apply_move and copy calls, the caller's cube and its copy each
\* have exactly the six faces up, down, front, back, left, right, and each
\* face is 3 rows of exactly 3 facelets.
C21_GridShape ==
    /\ ShapeOK(heap, heap.cube)
    /\ solver.made => ShapeOK(heap, heap.copy)

\* C21's case: a copy was made of a cube that a call had changed, and then
\* set_face was refused a list of 3 entries on the copy
C21_Witness ==
    /\ solver.made
    /\ last.op = "copy.set_face"
    /\ last.raised
    /\ last.face = "up"
    /\ Len(last.colors) = 3
    /\ faces # NewCube
    /\ ShapeOK(heap, heap.copy)

\* the face a move turns: the branch of _apply_base_move its letter takes
TurnedFace(m) ==
    CASE m[1] = "U" -> "up"    [] m[1] = "D" -> "down"
      [] m[1] = "L" -> "left"  [] m[1] = "R" -> "right"
      [] m[1] = "F" -> "front" [] m[1] = "B" -> "back"

\* the three transforms of a 3x3 grid the spec names
ClockwiseOf(g) == [i \in Idx |-> [j \in Idx |-> g[2 - j][i]]]
CounterOf(g)   == [i \in Idx |-> [j \in Idx |-> g[j][2 - i]]]
HalfTurnOf(g)  == [i \in Idx |-> [j \in Idx |-> g[2 - i][2 - j]]]

\* the transform the suffix of move m stands for
TransformOf(g, m) ==
    IF EndsWith(m, "'") THEN CounterOf(g)
    ELSE IF EndsWith(m, "2") THEN HalfTurnOf(g)
    ELSE ClockwiseOf(g)

\* grid new differs from grid old inside one row or inside one column only
WithinOneStrip(old, new) ==
    \/ \E i \in Idx : \A i2 \in Idx \ {i} : \A j \in Idx : new[i2][j] = old[i2][j]
    \/ \E j \in Idx : \A j2 \in Idx \ {j} : \A i \in Idx : new[i][j2] = old[i][j2]

\* C22: rotation of the turned face itself.  In every reachable cube state,
\* each of the 18 moves leaves on the face it turns the grid new[i][j] =
\* old[2-j][i] for a clockwise move, new[i][j] = old[j][2-i] for a
\* counter-clockwise move and new[i][j] = old[2-i][2-j], the clockwise
\* transform applied twice, for a 2 move; every other face keeps its grid
\* outside one row or one column, so none of them is rotated.
C22_TurnedFaceRotation ==
    \A m \in Moves :
        LET new == Turn(faces, m)
        IN  /\ new[TurnedFace(m)] = TransformOf(faces[TurnedFace(m)], m)
            /\ EndsWith(m, "2") =>
                   new[TurnedFace(m)] = ClockwiseOf(ClockwiseOf(faces[TurnedFace(m)]))
            /\ \A f \in FaceNames \ {TurnedFace(m)} : WithinOneStrip(faces[f], new[f])

\* C22's case: U was applied to a cube whose up face carried X at [0][1]
\* only, and the X is now at [1][2]
C22_Witness ==
    /\ last.op = "apply_move"
    /\ last.move = <<"U">>
    /\ ~last.raised
    /\ prev["up"][0][1] = "X"
    /\ prev["up"][1][2] # "X"
    /\ faces["up"][1][2] = "X"
    /\ faces["up"] = ClockwiseOf(prev["up"])

---------------------------------------------------------------------------
(* Quarter turns on a cube whose 54 facelets are all different *)

\* calls made on the cube in one behaviour of TurnSpec
MaxTurns == 2

\* the 12 quarter turns
QuarterTurns == BaseMoves \cup PrimeMoves

\* a list of 9 entries that names each facelet of face f by its position
Labels(f) == [k \in 1..9 |-> f \o ToString((k - 1) \div 3) \o ToString((k - 1) % 3)]

\* for face_name in cube.faces.keys(): cube.set_face(face_name, Labels(face_name))
LabelAll(c) ==
    LET run[k \in 0..6] ==
            IF k = 0 THEN c
            ELSE SetFace(run[k - 1], DictOrder[k], Labels(DictOrder[k])).faces
    IN  run[6]

\* the same loop on the heap
HeapLabelAll(h, d) ==
    LET run[k \in 0..6] ==
            IF k = 0 THEN h
            ELSE HeapSetFace(run[k - 1], d, DictOrder[k], Labels(DictOrder[k])).heap
    IN  run[6]

LabelCall ==
    /\ budget > 0
    /\ heap' = HeapLabelAll(heap, heap.cube)
    /\ faces' = LabelAll(faces)
    /\ last' = Call("label_all", FALSE, "", <<>>, <<>>, NoCollab, <<>>, <<>>)
    /\ prev' = faces
    /\ budget' = budget - 1
    /\ UNCHANGED session
    /\ UNCHANGED solver

TurnInit ==
    /\ faces = NewCube
    /\ solver = NoSolver
    /\ last = Call("init", FALSE, "", <<>>, <<>>, NoCollab, <<>>, <<>>)
    /\ prev = NewCube
    /\ budget = MaxTurns
    /\ heap = [HeapNew(NoHeap) EXCEPT !.cube = 1]
    /\ session = NoSession

TurnNext ==
    \/ LabelCall
    \/ \E move \in QuarterTurns : HeapApplyMoveCall("cube", move)

TurnSpec == TurnInit /\ [][TurnNext]_vars

\* three cell assignments dst[k] = src[k], k = 1, 2, 3; tmp says that src[k]
\* is read from the list saved in temp before the first strip assignment
Assign(dst, src, tmp) == [k \in 1..3 |-> [dst |-> dst[k], src |-> src[k], tmp |-> tmp]]

\* four strip assignments made one after the other
InTurn(a1, a2, a3, a4) == a1 \o a2 \o a3 \o a4

\* four strip assignments made inside one loop: for i in range(3) the i-th
\* cell assignment of each
InLoop(a1, a2, a3, a4) ==
    [n \in 1..12 |-> <<a1, a2, a3, a4>>[((n - 1) % 4) + 1][((n - 1) \div 4) + 1]]

\* the cell assignments of the strips of a quarter turn, in the order in
\* which _rotate_up .. _rotate_back make them
Writes(m) ==
    CASE m = <<"U">> ->
           InTurn(Assign(RowPos("front", 0), RowPos("right", 0), FALSE),
                  Assign(RowPos("right", 0), RowPos("back", 0), FALSE),
                  Assign(RowPos("back", 0), RowPos("left", 0), FALSE),
                  Assign(RowPos("left", 0), RowPos("front", 0), TRUE))
      [] m = <<"U", "'">> ->
           InTurn(Assign(RowPos("front", 0), RowPos("left", 0), FALSE),
                  Assign(RowPos("left", 0), RowPos("back", 0), FALSE),
                  Assign(RowPos("back", 0), RowPos("right", 0), FALSE),
                  Assign(RowPos("right", 0), RowPos("front", 0), TRUE))
      [] m = <<"D">> ->
           InTurn(Assign(RowPos("front", 2), RowPos("left", 2), FALSE),
                  Assign(RowPos("left", 2), RowPos("back", 2), FALSE),
                  Assign(RowPos("back", 2), RowPos("right", 2), FALSE),
                  Assign(RowPos("right", 2), RowPos("front", 2), TRUE))
      [] m = <<"D", "'">> ->
           InTurn(Assign(RowPos("front", 2), RowPos("right", 2), FALSE),
                  Assign(RowPos("right", 2), RowPos("back", 2), FALSE),
                  Assign(RowPos("back", 2), RowPos("left", 2), FALSE),
                  Assign(RowPos("left", 2), RowPos("front", 2), TRUE))
      [] m = <<"R">> ->
           InLoop(Assign(ColPos("front", 2), ColPos("down", 2), FALSE),
                  Assign(ColPos("down", 2), RevPos(ColPos("back", 0)), FALSE),
                  Assign(RevPos(ColPos("back", 0)), ColPos("up", 2), FALSE),
                  Assign(ColPos("up", 2), ColPos("front", 2), TRUE))
      [] m = <<"R", "'">> ->
           InLoop(Assign(ColPos("front", 2), ColPos("up", 2), FALSE),
                  Assign(ColPos("up", 2), RevPos(ColPos("back", 0)), FALSE),
                  Assign(RevPos(ColPos("back", 0)), ColPos("down", 2), FALSE),
                  Assign(ColPos("down", 2), ColPos("front", 2), TRUE))
      [] m = <<"L">> ->
           InLoop(Assign(ColPos("front", 0), ColPos("up", 0), FALSE),
                  Assign(ColPos("up", 0), RevPos(ColPos("back", 2)), FALSE),
                  Assign(RevPos(ColPos("back", 2)), ColPos("down", 0), FALSE),
                  Assign(ColPos("down", 0), ColPos("front", 0), TRUE))
      [] m = <<"L", "'">> ->
           InLoop(Assign(ColPos("front", 0), ColPos("down", 0), FALSE),
                  Assign(ColPos("down", 0), RevPos(ColPos("back", 2)), FALSE),
                  Assign(RevPos(ColPos("back", 2)), ColPos("up", 0), FALSE),
                  Assign(ColPos("up", 0), ColPos("front", 0), TRUE))
      [] m = <<"F">> ->
           InTurn(Assign(RowPos("up", 2), RevPos(ColPos("left", 2)), FALSE),
                  Assign(ColPos("left", 2), RowPos("down", 0), FALSE),
                  Assign(RowPos("down", 0), RevPos(ColPos("right", 0)), FALSE),
                  Assign(ColPos("right", 0), RowPos("up", 2), TRUE))
      [] m = <<"F", "'">> ->
           InTurn(Assign(RowPos("up", 2), ColPos("right", 0), FALSE),
                  Assign(ColPos("right", 0), RevPos(RowPos("down", 0)), FALSE),
                  Assign(RowPos("down", 0), ColPos("left", 2), FALSE),
                  Assign(ColPos("left", 2), RevPos(RowPos("up", 2)), TRUE))
      [] m = <<"B">> ->
           InTurn(Assign(RowPos("up", 0), ColPos("right", 2), FALSE),
                  Assign(ColPos("right", 2), RevPos(RowPos("down", 2)), FALSE),
                  Assign(RowPos("down", 2), RevPos(ColPos("left", 0)), FALSE),
                  Assign(ColPos("left", 0), RevPos(RowPos("up", 0)), TRUE))
      [] m = <<"B", "'">> ->
           InTurn(Assign(RowPos("up", 0), RevPos(ColPos("left", 0)), FALSE),
                  Assign(ColPos("left", 0), RowPos("down", 2), FALSE),
                  Assign(RowPos("down", 2), RevPos(ColPos("right", 2)), FALSE),
                  Assign(ColPos("right", 2), RowPos("up", 0), TRUE))

\* the cube after quarter turn m when the turned face and all strip cells are
\* computed from the cube c before the move and written at once
AtOnce(c, m) ==
    LET w == Writes(m)
        t == TurnedFace(m)
        from(f, i, j) == CHOOSE n \in 1..12 : w[n].dst = <<f, i, j>>
    IN  [f \in FaceNames |-> [i \in Idx |-> [j \in Idx |->
            IF f = t
            THEN TransformOf(c[t], m)[i][j]
            ELSE IF \E n \in 1..12 : w[n].dst = <<f, i, j>>
            THEN LET s == w[from(f, i, j)].src IN c[s[1]][s[2]][s[3]]
            ELSE c[f][i][j]]]]

\* no cell assignment of w reads from the cube a cell that an earlier one of
\* w has written, and none writes a cell twice
NoReadAfterWrite(w) ==
    \A n \in 1..12 : \A n2 \in 1..(n - 1) :
        /\ ~w[n].tmp => w[n2].dst # w[n].src
        /\ w[n2].dst # w[n].dst

\* C23: no read-after-write corruption.  After each of the 12 quarter turns,
\* on cubes whose 54 facelets are all different as on the constructed cube,
\* the facelets left by the ordered in-place assignments are those obtained
\* by computing the turned face and the four strips from the cube before the
\* move and writing them at once; no strip assignment reads a cell that the
\* move has already written; and the 18 row lists of the cube are 18
\* different objects in 6 different face lists.
C23_NoReadAfterWrite ==
    /\ \A m \in QuarterTurns : NoReadAfterWrite(Writes(m))
    /\ (last.op = "cube.apply_move" /\ ~last.raised)
           => /\ Deref(heap, heap.cube) = AtOnce(prev, last.move)
              /\ faces = AtOnce(prev, last.move)
    /\ Cardinality(ListsOf(heap, heap.cube)) = 6
    /\ Cardinality(RowsOf(heap, heap.cube)) = 18

\* C23's case: the clockwise B turn, which writes row 0 of up in place after
\* saving it, was made on a cube whose 54 facelets were all different
C23_Witness ==
    /\ last.op = "cube.apply_move"
    /\ last.move = <<"B">>
    /\ Cardinality({prev[p[1]][p[2]][p[3]] : p \in Facelets}) = 54
    /\ Deref(heap, heap.cube) = AtOnce(prev, <<"B">>)
    /\ Deref(heap, heap.cube) # prev

\* the positions of row i and of column j of face f
RowCells(f, i) == {<<f, i, j>> : j \in Idx}
ColCells(f, j) == {<<f, i, j>> : i \in Idx}

\* the 12 facelets next to the face turned by letter x: one row or one column
\* of each of the four adjacent faces
AdjacentStrips(x) ==
    CASE x = "U" -> UNION {RowCells(f, 0) : f \in {"front", "right", "back", "left"}}
      [] x = "D" -> UNION {RowCells(f, 2) : f \in {"front", "right", "back", "left"}}
      [] x = "R" -> UNION {ColCells(f, 2) : f \in {"front", "up", "down"}}
                        \cup ColCells("back", 0)
      [] x = "L" -> UNION {ColCells(f, 0) : f \in {"front", "up", "down"}}
                        \cup ColCells("back", 2)
      [] x = "F" -> RowCells("up", 2) \cup RowCells("down", 0)
                        \cup ColCells("left", 2) \cup ColCells("right", 0)
      [] x = "B" -> RowCells("up", 0) \cup RowCells("down", 2)
                        \cup ColCells("left", 0) \cup ColCells("right", 2)

\* the face opposite to face f on the cube
Opposite(f) ==
    CASE f = "up" -> "down" [] f = "down" -> "up" [] f = "front" -> "back"
      [] f = "back" -> "front" [] f = "left" -> "right" [] f = "right" -> "left"

\* the facelets a turn of letter x may change
Frame(x) == {p \in Facelets : p[1] = TurnedFace(<<x>>)} \cup AdjacentStrips(x)

\* the positions at which cubes c1 and c2 differ
Changed(c1, c2) == {p \in Facelets : c1[p[1]][p[2]][p[3]] # c2[p[1]][p[2]][p[3]]}

\* C24: frame of a face turn.  In every reachable cube state each quarter
\* turn changes facelets of the turned face and of the 12 named strip
\* positions only: 9 + 12 positions, none on the opposite face and 3 on each
\* adjacent face; and the turn just made has changed no facelet outside them,
\* read through the cube's lists.
C24_TurnFrame ==
    /\ \A m \in QuarterTurns :
           /\ Changed(faces, Turn(faces, m)) \subseteq Frame(m[1])
           /\ Cardinality(Frame(m[1])) = 21
           /\ \A p \in Frame(m[1]) : p[1] # Opposite(TurnedFace(m))
           /\ \A f \in FaceNames \ {TurnedFace(m), Opposite(TurnedFace(m))} :
                  Cardinality({p \in Frame(m[1]) : p[1] = f}) = 3
    /\ (last.op = "cube.apply_move" /\ ~last.raised)
           => Changed(prev, Deref(heap, heap.cube)) \subseteq Frame(last.move[1])

\* C24's case: L was applied to a cube whose 54 facelets were all different;
\* it has changed the 20 facelets of its frame other than the centre of left
C24_Witness ==
    /\ last.op = "cube.apply_move"
    /\ last.move = <<"L">>
    /\ Cardinality({prev[p[1]][p[2]][p[3]] : p \in Facelets}) = 54
    /\ Changed(prev, faces) = Frame("L") \ {<<"left", 1, 1>>}

---------------------------------------------------------------------------
(* Face assignment from a list the caller keeps.  The caller's list is an  *)
(* object among heap.rows, a list of strings indexed from 0; heap.arg is   *)
(* its address.                                                            *)

\* calls and list changes made in one behaviour of AssignSpec
MaxAssigns == 3

\* the entries of the list at address a, as set_face reads them by
\* len(colors) and colors[0] .. colors[8]
ListValue(h, a) == [k \in 1..Cardinality(DOMAIN h.rows[a]) |-> h.rows[a][k - 1]]

\* colors = [...]: a new list object with the entries of colors
NewList(h, colors) ==
    [h EXCEPT !.rows = Append(@, [k \in 0..(Len(colors) - 1) |-> colors[k + 1]]),
              !.arg = Len(h.rows) + 1]

\* set_face that keeps the caller's list itself as row 0 of the face
HeapSetFaceFrom_KeepsList(h, d, face_name, a) ==
    LET r == HeapSetFace(h, d, face_name, ListValue(h, a))
    IN  IF r.raised THEN r
        ELSE HeapDone([r.heap EXCEPT !.lists[ListOf(r.heap, d, face_name)][0] = a])

\* RubiksCube.set_face(face_name, colors) for the list object at address a
HeapSetFaceFrom(h, d, face_name, a) == HeapSetFace(h, d, face_name, ListValue(h, a))

\* arguments: lists of 9 legal codes, with a code outside the six colours,
\* of 9 different entries, and of 3 entries
AssignFaceInputs == {"up", "front", "top"}
AssignColourInputs ==
    { Nine("Y"), <<"W", "X", "W", "W", "W", "W", "W", "W", "W">>, Labels("up"),
      <<"R", "R", "R">> }
AssignMoveInputs == { <<"U">>, <<"F", "'">>, <<"R", "2">>, <<"B">> }
ChangedIndices == {0, 4, 8}

AssignInit ==
    /\ faces = NewCube
    /\ solver = NoSolver
    /\ last = Call("init", FALSE, "", <<>>, <<>>, NoCollab, <<>>, <<>>)
    /\ prev = NewCube
    /\ budget = MaxAssigns
    /\ heap = [HeapNew(NoHeap) EXCEPT !.cube = 1]
    /\ session = NoSession

\* colors = [...]; cube.set_face(face_name, colors)
ListSetFaceCall(face_name, colors) ==
    /\ budget > 0
    /\ LET h1 == NewList(heap, colors)
           r == HeapSetFaceFrom(h1, h1.cube, face_name, h1.arg)
       IN  /\ heap' = r.heap
           /\ last' = Call("cube.set_face", r.raised, face_name, colors, <<>>,
                           NoCollab, <<>>, <<>>)
    /\ faces' = SetFace(faces, face_name, colors).faces
    /\ prev' = faces
    /\ budget' = budget - 1
    /\ UNCHANGED session
    /\ UNCHANGED solver

\* colors[k] = 'Z', on the list handed to the last set_face
ChangeListCall(k) ==
    /\ budget > 0
    /\ heap.arg # 0
    /\ k \in DOMAIN heap.rows[heap.arg]
    /\ heap' = [heap EXCEPT !.rows[heap.arg][k] = "Z"]
    /\ last' = Call("change_list", FALSE, "", <<>>, <<>>, NoCollab, <<>>, <<>>)
    /\ prev' = faces
    /\ budget' = budget - 1
    /\ UNCHANGED session
    /\ UNCHANGED <<faces, solver>>

AssignNext ==
    \/ \E face_name \in AssignFaceInputs, colors \in AssignColourInputs :
           ListSetFaceCall(face_name, colors)
    \/ \E k \in ChangedIndices : ChangeListCall(k)
    \/ \E move \in AssignMoveInputs : HeapApplyMoveCall("cube", move)

AssignSpec == AssignInit /\ [][AssignNext]_vars

\* C25: frame of face assignment.  A successful set_face(f, c) leaves the 45
\* facelets of the other five faces as they were and stores the 9 entries of
\* c whatever they are; the cube's rows are never the caller's list, and a
\* change the caller makes to that list afterwards changes no facelet.
C25_SetFaceFrame ==
    LET cube == Deref(heap, heap.cube)
    IN  /\ cube = faces
        /\ (last.op = "cube.set_face" /\ ~last.raised)
               => /\ \A f \in FaceNames \ {last.face} : cube[f] = prev[f]
                  /\ GetFaceFlat(cube, last.face) = last.colors
        /\ heap.arg # 0 => heap.arg \notin RowsOf(heap, heap.cube)
        /\ last.op = "change_list" => cube = prev

\* C25's case: a list with a code outside the six colours was stored on the
\* front face of a turned cube, and then the caller changed the list
C25_Witness ==
    /\ last.op = "change_list"
    /\ heap.rows[heap.arg][0] = "Z"
    /\ heap.rows[heap.arg][1] = "X"
    /\ GetFaceFlat(Deref(heap, heap.cube), "front")
           = <<"W", "X", "W", "W", "W", "W", "W", "W", "W">>
    /\ faces["up"] # NewCube["up"]

---------------------------------------------------------------------------
(* Properties of the solved check and of the pieces *)

\* the colours found on face f of cube c
ColoursOn(c, f) == {c[f][i][j] : i \in Idx, j \in Idx}

\* C26: is_solved() is true if and only if on each of the six faces all 9
\* facelets equal the face's centre facelet, whether or not the six centres
\* differ; after every face has been set to one and the same colour the cube
\* is solved and is_valid() is false.
C26_IsSolvedPerFace ==
    /\ IsSolved(faces) = (\A f \in FaceNames : ColoursOn(faces, f) = {faces[f][1][1]})
    /\ (last.op = "set_all_faces" /\ ~last.raised)
           => /\ IsSolved(faces)
              /\ ~IsValid(faces)

\* C26's case: all 54 facelets are R after the loop over the six faces
C26_Witness ==
    /\ last.op = "set_all_faces"
    /\ \A p \in Facelets : faces[p[1]][p[2]][p[3]] = "R"
    /\ prev # faces
    /\ IsSolved(faces)
    /\ ~IsValid(faces)

\* the 12 edge positions and the 8 corner positions of the cube: the
\* facelets that meet at an edge or at a corner, by the strips each turn cycles
EdgePositions ==
    { {<<"up", 2, 1>>, <<"front", 0, 1>>},   {<<"up", 0, 1>>, <<"back", 0, 1>>},
      {<<"up", 1, 0>>, <<"left", 0, 1>>},    {<<"up", 1, 2>>, <<"right", 0, 1>>},
      {<<"down", 0, 1>>, <<"front", 2, 1>>}, {<<"down", 2, 1>>, <<"back", 2, 1>>},
      {<<"down", 1, 0>>, <<"left", 2, 1>>},  {<<"down", 1, 2>>, <<"right", 2, 1>>},
      {<<"front", 1, 0>>, <<"left", 1, 2>>}, {<<"front", 1, 2>>, <<"right", 1, 0>>},
      {<<"back", 1, 0>>, <<"right", 1, 2>>}, {<<"back", 1, 2>>, <<"left", 1, 0>>} }
CornerPositions ==
    { {<<"up", 2, 0>>, <<"front", 0, 0>>, <<"left", 0, 2>>},
      {<<"up", 2, 2>>, <<"front", 0, 2>>, <<"right", 0, 0>>},
      {<<"up", 0, 2>>, <<"back", 0, 0>>, <<"right", 0, 2>>},
      {<<"up", 0, 0>>, <<"back", 0, 2>>, <<"left", 0, 0>>},
      {<<"down", 0, 0>>, <<"front", 2, 0>>, <<"left", 2, 2>>},
      {<<"down", 0, 2>>, <<"front", 2, 2>>, <<"right", 2, 0>>},
      {<<"down", 2, 2>>, <<"back", 2, 0>>, <<"right", 2, 2>>},
      {<<"down", 2, 0>>, <<"back", 2, 2>>, <<"left", 2, 0>>} }

\* the colours of opposite faces of the constructed cube
OppositeColours == { {"W", "Y"}, {"R", "O"}, {"B", "G"} }

\* the facelets at the positions ps of cube c are pairwise different colours,
\* no two of them colours of opposite faces
PieceIntact(c, ps) ==
    \A p \in ps : \A q \in ps \ {p} :
        /\ c[p[1]][p[2]][p[3]] # c[q[1]][q[2]][q[3]]
        /\ {c[p[1]][p[2]][p[3]], c[q[1]][q[2]][q[3]]} \notin OppositeColours

\* C27: cubie integrity.  In every cube state reached from the constructed
\* cube by moves, each of the 12 edge positions shows two different colours
\* that are not colours of opposite faces, and each of the 8 corner positions
\* shows three pairwise different, pairwise non-opposite colours.
C27_CubieIntegrity ==
    /\ \A e \in EdgePositions : PieceIntact(faces, e)
    /\ \A k \in CornerPositions : PieceIntact(faces, k)

\* the moves of the family of letter x: X, X' and X2
Family(x) == { <<x>>, <<x, "'">>, <<x, "2">> }

\* the pairs of letters of opposite faces
OppositeLetters == { <<"U", "D">>, <<"L", "R">>, <<"F", "B">> }

\* C28: turns of opposite faces commute.  In every reachable cube state, for
\* every move a of the U, L or F family and every move b of the family of the
\* opposite face (D, R or B), a then b leaves the same 54 facelets as b then a.
C28_OppositeTurnsCommute ==
    \A xy \in OppositeLetters : \A a \in Family(xy[1]) : \A b \in Family(xy[2]) :
        Turn(Turn(faces, a), b) = Turn(Turn(faces, b), a)

\* C28's case: F was applied to a cube whose 54 facelets were all different;
\* B applied now gives the cube that F gives after B, which differs from this
C28_Witness ==
    /\ last.op = "cube.apply_move"
    /\ last.move = <<"F">>
    /\ Cardinality({prev[p[1]][p[2]][p[3]] : p \in Facelets}) = 54
    /\ Turn(faces, <<"B">>) = Turn(Turn(prev, <<"B">>), <<"F">>)
    /\ Turn(faces, <<"B">>) # faces

---------------------------------------------------------------------------
(* Properties of the solver's snapshot, checked under Spec *)

\* C29: the solver works on a snapshot taken at construction.  No call on
\* the caller's cube and no solve() changes the cube the solver holds; what
\* solve() returns is determined by that cube and by the collaborator's
\* behaviour, whatever the caller's cube has become; and a solve() that
\* follows a solve() with the same collaborator behaviour returns an equal
\* solution.
C29_SolverSnapshot ==
    /\ [](last.op = "solve" =>
             LET r == Solve(solver.cube, last.collab)
             IN  /\ last.raised = r.raised
                 /\ ~r.raised => last.ret = r.solution
                 /\ solver.solution = r.solution)
    /\ [][(solver.made /\ last'.op # "new_solver") => solver'.cube = solver.cube]_vars
    /\ [][(last.op = "solve" /\ last'.op = "solve" /\ last'.collab = last.collab)
              => (last'.raised = last.raised /\ last'.ret = last.ret)]_vars

\* C29's case: the solver was made of the constructed cube, the caller then
\* turned its cube, and solve() has returned the empty solution of the
\* snapshot without asking the collaborator
C29_Witness ==
    /\ solver.made
    /\ last.op = "solve"
    /\ solver.cube = NewCube
    /\ faces = Turn(NewCube, <<"R">>)
    /\ IsValid(faces)
    /\ ~IsSolved(faces)
    /\ last.ret = <<>>
    /\ last.calls = <<>>

---------------------------------------------------------------------------
(* The capture session of app.py: start_camera, capture_face, solve_vision,
   stop_camera, with the camera, the detector and kociemba as collaborators *)

\* requests the browser may make in one behaviour
MaxRequests == 8

\* the outcome of _extract_grid_colors on a frame: one colour is appended for
\* each of the 9 grid positions; a tile that makes the colour computation
\* raise ends the loop with the colours gathered so far
ExtractGridColors(tiles) ==
    LET loop[k \in 0..9] ==
            IF k = 0 THEN [raised |-> FALSE, colors |-> <<>>]
            ELSE LET before == loop[k - 1]
                 IN  IF before.raised THEN before
                     ELSE IF tiles[k] = "raise" THEN [before EXCEPT !.raised = TRUE]
                     ELSE [before EXCEPT !.colors = Append(@, tiles[k])]
    IN  loop[9]

\* detect_face_colors that returns the colours gathered before the exception
DetectFaceColors_PartialOnError(frame) ==
    [none |-> FALSE, colors |-> ExtractGridColors(frame.tiles).colors]

\* detect_face_colors(frame): the 9 colours, or None when anything raised
DetectFaceColors(frame) ==
    LET r == ExtractGridColors(frame.tiles)
    IN  IF r.raised
        THEN [none |-> TRUE, colors |-> <<>>]
        ELSE [none |-> FALSE, colors |-> r.colors]

\* the frame kept by the loop "for attempt in range(3)": the result of the
\* first read with ret and a frame, else the frame of the third read
FrameAfterRetries(reads) ==
    LET loop[k \in 0..3] ==
            IF k = 0 THEN [done |-> FALSE, frame |-> NoFrame]
            ELSE LET before == loop[k - 1]
                 IN  IF before.done THEN before
                     ELSE [done  |-> reads[k].ret /\ ~reads[k].frame.none,
                           frame |-> reads[k].frame]
    IN  loop[3].frame

\* current_cube_state[face_name] = face_colors, on a dict created if None
StoreCapture(state, face_name, face_colors) ==
    [none  |-> FALSE,
     faces |-> [k \in DOMAIN state.faces \cup {face_name} |->
                   IF k = face_name THEN face_colors ELSE state.faces[k]]]

\* capture_face: the response (error, colors) and the session it leaves
CaptureFace(s, face_name, reads, encodes) ==
    LET frame       == FrameAfterRetries(reads)
        face_colors == DetectFaceColors(frame)
        failed      == [error |-> TRUE, colors |-> <<>>, state |-> s.current_cube_state]
    IN  IF s.camera # "opened" THEN failed
        ELSE IF frame.none THEN failed
        ELSE IF face_colors.none THEN failed
        ELSE LET stored == StoreCapture(s.current_cube_state, face_name,
                                        face_colors.colors)
             IN  IF encodes
                 THEN [error |-> FALSE, colors |-> face_colors.colors, state |-> stored]
                 ELSE [error |-> TRUE, colors |-> <<>>, state |-> stored]

\* the list faces of solve_vision
VisionOrder == <<"up", "right", "front", "down", "left", "back">>

\* the cube solve_vision builds: set_face for each face of VisionOrder, a
\* missing key or a raising set_face ending the loop
VisionCube(state) ==
    LET loop[k \in 0..6] ==
            IF k = 0 THEN Done(NewCube)
            ELSE LET before == loop[k - 1]
                 IN  IF before.raised THEN before
                     ELSE IF VisionOrder[k] \notin DOMAIN state.faces
                          THEN Raised(before.faces)
                          ELSE SetFace(before.faces, VisionOrder[k],
                                       state.faces[VisionOrder[k]])
    IN  loop[6]

\* solve_vision: the response (error, solution), the solver it made if it
\* made one, and the current_cube_state it leaves
SolveVision(s, collab) ==
    LET state  == s.current_cube_state
        failed == [error |-> TRUE, solution |-> <<>>, solver |-> NoSolver,
                   calls |-> <<>>, state |-> state]
    IN  IF state.none \/ Cardinality(DOMAIN state.faces) # 6 THEN failed
        ELSE LET cube == VisionCube(state)
             IN  IF cube.raised THEN failed
                 ELSE IF ~IsValid(cube.faces) THEN failed
                 ELSE LET r == Solve(Copy(cube.faces), collab)
                          made == [made |-> TRUE, cube |-> Copy(cube.faces),
                                   solution |-> r.solution]
                      IN  IF r.raised
                          THEN [failed EXCEPT !.solver = made, !.calls = r.calls]
                          ELSE [error |-> FALSE, solution |-> r.solution,
                                solver |-> made, calls |-> r.calls,
                                state |-> NoSession.current_cube_state]

\* what camera.read() gives: (True, frame), or (False, None) when no frame
\* was grabbed
ReadOK(tiles) == [ret |-> TRUE, frame |-> [none |-> FALSE, tiles |-> tiles]]
ReadFailed    == [ret |-> FALSE, frame |-> NoFrame]

\* what the camera shows of the face held up: the face of a solved cube,
\* for the front face also the face of a cube one U turn away, or a frame
\* whose fifth tile makes the detector raise
SolvedTiles == [f \in FaceNames |-> GetFaceFlat(NewCube, f)]
TurnedTiles == GetFaceFlat(Turn(NewCube, <<"U">>), "front")
BadTiles    == [k \in 1..9 |-> IF k = 5 THEN "raise" ELSE "W"]

TilesOf ==
    [f \in FaceNames |->
        {SolvedTiles[f], BadTiles} \cup (IF f = "front" THEN {TurnedTiles} ELSE {})]

\* the camera and the encoder in one request: the first read succeeds, only
\* the third read succeeds, no read succeeds, or the reads succeed and
\* cv2.imencode raises
RequestInputs ==
    [f \in FaceNames |->
        { [reads |-> <<ReadOK(t), ReadOK(t), ReadOK(t)>>, encodes |-> TRUE] :
              t \in TilesOf[f] }
        \cup { [reads |-> <<ReadFailed, ReadFailed, ReadOK(SolvedTiles[f])>>,
                encodes |-> TRUE],
               [reads |-> <<ReadFailed, ReadFailed, ReadFailed>>, encodes |-> TRUE],
               [reads |-> <<ReadOK(SolvedTiles[f]), ReadOK(SolvedTiles[f]),
                            ReadOK(SolvedTiles[f])>>, encodes |-> FALSE] }]

\* outcomes of start_camera: a camera that opened and read a test frame, no
\* working camera found (camera left as it was), a camera object that is
\* not opened, and a failure that leaves camera = None
StartOutcomes == {"opened", "not_found", "closed", "None"}

CaptureInit ==
    /\ faces = NewCube
    /\ solver = NoSolver
    /\ last = Call("init", FALSE, "", <<>>, <<>>, NoCollab, <<>>, <<>>)
    /\ prev = NewCube
    /\ budget = MaxRequests
    /\ heap = NoHeap
    /\ session = NoSession

\* GET /start_camera
StartCameraCall(outcome) ==
    /\ budget > 0
    /\ session' = [session EXCEPT
                      !.camera = IF outcome = "not_found" THEN @ ELSE outcome,
                      !.request = NoRequest]
    /\ last' = Call("start_camera", outcome # "opened", "", <<>>, <<>>, NoCollab,
                    <<>>, <<>>)
    /\ solver' = NoSolver
    /\ budget' = budget - 1
    /\ UNCHANGED <<faces, prev, heap>>

\* GET /stop_camera
StopCameraCall ==
    /\ budget > 0
    /\ session' = NoSession
    /\ last' = Call("stop_camera", FALSE, "", <<>>, <<>>, NoCollab, <<>>, <<>>)
    /\ solver' = NoSolver
    /\ budget' = budget - 1
    /\ UNCHANGED <<faces, prev, heap>>

\* POST /capture_face {face: face_name}, the camera giving reads and
\* cv2.imencode succeeding or raising
CaptureFaceCall(face_name, reads, encodes) ==
    /\ budget > 0
    /\ LET r == CaptureFace(session, face_name, reads, encodes)
       IN  /\ session' = [session EXCEPT
                             !.current_cube_state = r.state,
                             !.request = [reads |-> reads, encodes |-> encodes]]
           /\ last' = Call("capture_face", r.error, face_name, r.colors, <<>>,
                           NoCollab, <<>>, <<>>)
    /\ solver' = NoSolver
    /\ budget' = budget - 1
    /\ UNCHANGED <<faces, prev, heap>>

\* POST /solve_vision, kociemba behaving as collab
SolveVisionCall(collab) ==
    /\ budget > 0
    /\ LET r == SolveVision(session, collab)
       IN  /\ session' = [session EXCEPT
                             !.current_cube_state = r.state, !.request = NoRequest]
           /\ last' = Call("solve_vision", r.error, "", <<>>, <<>>, collab,
                           r.solution, r.calls)
           /\ solver' = r.solver
    /\ budget' = budget - 1
    /\ UNCHANGED <<faces, prev, heap>>

CaptureNext ==
    \/ \E outcome \in StartOutcomes : StartCameraCall(outcome)
    \/ StopCameraCall
    \/ \E face_name \in FaceNames : \E rq \in RequestInputs[face_name] :
          CaptureFaceCall(face_name, rq.reads, rq.encodes)
    \/ \E collab \in Collabs : SolveVisionCall(collab)

CaptureSpec == CaptureInit /\ [][CaptureNext]_vars

\* C30: a failed face capture is never integrated.  A capture_face request
\* made when the camera is not initialised, when none of its 3 reads gives a
\* frame, or when the detector returns None answers with an error and leaves
\* current_cube_state exactly as it was; every stored face is a complete
\* list of 9 colours; and solve_vision makes and runs a solver only when
\* current_cube_state holds six faces.
C30_FailedCaptureNotIntegrated ==
    /\ [](\A k \in DOMAIN session.current_cube_state.faces :
             /\ Len(session.current_cube_state.faces[k]) = 9
             /\ \A n \in 1..9 : session.current_cube_state.faces[k][n] \in CubeColours)
    /\ [][LET reads == session'.request.reads
          IN  (/\ last'.op = "capture_face"
               /\ \/ session.camera # "opened"
                  \/ \A k \in 1..3 : ~reads[k].ret
                  \/ \E k \in 1..3 :
                        /\ reads[k].ret
                        /\ \A n \in 1..(k - 1) : ~reads[n].ret
                        /\ DetectFaceColors(reads[k].frame).none)
              => (/\ last'.raised
                  /\ session'.current_cube_state = session.current_cube_state)]_vars
    /\ [][(last'.op = "solve_vision" /\ solver'.made)
              => (/\ ~session.current_cube_state.none
                  /\ Cardinality(DOMAIN session.current_cube_state.faces) = 6)]_vars

\* C30's case: with two faces stored and the camera opened, a capture of a
\* third face read a frame on which the detector raised; the request was
\* answered with an error and that face is not among those stored
C30_Witness ==
    /\ last.op = "capture_face"
    /\ last.raised
    /\ session.camera = "opened"
    /\ session.request.reads[1].ret
    /\ session.request.reads[1].frame.tiles = BadTiles
    /\ ~session.current_cube_state.none
    /\ Cardinality(DOMAIN session.current_cube_state.faces) = 2
    /\ last.face \notin DOMAIN session.current_cube_state.faces

===========================================================================
